---- MODULE Spec2Model ----
(***************************************************************************)
(* Model of the hft-engine market-data pipeline.                           *)
(*                                                                         *)
(* Part 1: QuoteGateway (src/src/gateways/quote.rs) driving VenueAdapter    *)
(* implementations (MockVenue, BinanceVenue).  Every gateway method is one  *)
(* action; the adapters' subscribe_quotes / stop are operators computed as  *)
(* the adapters compute them.  The variable `last` records the most recent  *)
(* gateway call: its arguments, its return value, the gateway state before  *)
(* it and the adapter calls it made, so that contracts of the form          *)
(* "after f(x) returns ..." are state predicates.                           *)
(*                                                                         *)
(* Part 2: OrderBook (src/src/book/mod.rs) driven directly, one update per  *)
(* step, as the unit tests drive it (specification BookSpec).               *)
(*                                                                         *)
(* Part 3: the quote channel between the senders (QuoteGateway and the      *)
(* adapters' generation loops) and BookBuilder::run (specification          *)
(* PipelineSpec).                                                           *)
(***************************************************************************)
EXTENDS Integers, Sequences, FiniteSets, TLC

\* ------------------------------------------------------------------ bounds
\* Largest venue registry explored (add_venue is disabled beyond it).
MaxVenues == 3

\* Number of quotes the senders of the quote channel emit in one behaviour.
MaxQuotes == 3

\* Number of tasks that update the book map concurrently (10 in
\* test_concurrent_book_updates).
NumTasks == 5

\* Capacity of the quote channel explored (mpsc::channel(1000) in
\* services/mod.rs; a send suspends while the channel holds this many).
ChannelCapacity == 2

\* Number of background tasks the adapters spawn in one behaviour.
MaxLoops == 2

\* The gateway calls the concurrent callers make altogether.
MaxCalls == 4

\* ---------------------------------------------------------------- adapters
\* Adapter handles (Arc<dyn VenueAdapter>): two mock venues and two
\* instances of the streaming Binance adapter.
MockAdapters == {"M1", "M2"}
BinanceAdapters == {"B1", "B2"}
Adapters == MockAdapters \cup BinanceAdapters

\* VenueAdapter::name: a MockVenue returns the name it was built with,
\* every BinanceVenue returns the same constant.
name(a) ==
    CASE a = "M1" -> "MOCK1"
      [] a = "M2" -> "MOCK2"
      [] OTHER    -> "BINANCE_FUTURES"

\* Whether with_quote_sender was applied to the adapter (quote_tx is Some).
has_quote_tx(a) == a \notin {"M2", "B0"}

VenueNames == {name(a) : a \in Adapters}

\* Names handed to remove_venue: the registered names and one no adapter has.
RemoveNames == VenueNames \cup {"NONEXISTENT"}

\* Symbol lists handed to subscribe (Vec<String>), the empty list included.
SymbolLists == {<<>>, <<"BTCUSDT">>, <<"BTCUSDT", "ETHUSDT">>}

\* ------------------------------------------------------------------- state
VARIABLES
    venues,              \* QuoteGateway.venues: Vec<Arc<dyn VenueAdapter>>
    subscriptions,       \* QuoteGateway.subscriptions: HashMap<String, Vec<String>>
    is_running,          \* QuoteGateway.is_running
    mock_is_running,     \* MockVenue.is_running, per mock adapter
    subscribed_symbols,  \* MockVenue.subscribed_symbols, per mock adapter
    last,                \* the most recent gateway call (observation only)
    ob,                  \* one OrderBook driven directly: [symbol, bids, asks]
    ob_last,             \* the last OrderBook::update: its quote, the book before
    norm_last,           \* the last price scaled in f64: price, bid, key, best bid
    chan,                \* quotes buffered in the mpsc quote channel, oldest first
    senders,             \* holders of a live mpsc::Sender<Quote>
    builder,             \* BookBuilder: "created", "running", "returned", "dropped"
    books,               \* BookBuilder.books: HashMap<String, OrderBook>
    orderbook_updates,   \* ORDERBOOK_UPDATES counter, per symbol
    throughput,          \* QUOTE_GATEWAY_THROUGHPUT counter, per <<symbol, venue>>
    sent,                \* every quote accepted by the channel, in order (history)
    applied,             \* every quote applied by BookBuilder, in order (history)
    book_lock,           \* the tasks holding the write lock of the book map
    task_pc,             \* position of each concurrent update task
    task_seen,           \* the book map each task works on through its guard
    caller,              \* the gateway call each concurrent caller is inside
    rwlock,              \* the gateway's three RwLocks: guards held and waiters
    conc_obs,            \* what the concurrent callers did so far (observation)
    tick_last,           \* the last websocket message handled and its outcome
    loops                \* the adapters' background tasks, in spawn order

gatewayVars == <<venues, subscriptions, is_running, mock_is_running,
                 subscribed_symbols>>
bookVars == <<ob, ob_last, norm_last>>
pipeVars == <<chan, senders, builder, books, orderbook_updates, throughput,
              sent, applied>>

concVars == <<caller, rwlock, conc_obs>>
lockVars == <<book_lock, task_pc, task_seen, concVars>>
adapterVars == <<tick_last, loops>>

vars == <<venues, subscriptions, is_running, mock_is_running,
          subscribed_symbols, last, ob, ob_last, norm_last, chan, senders, builder,
          books, orderbook_updates, throughput, sent, applied, book_lock,
          task_pc, task_seen, caller, rwlock, conc_obs, tick_last, loops>>

\* ----------------------------------------------------------------- results
Ok == [ok |-> TRUE, err |-> "none", venue |-> "", errors |-> <<>>]

\* HftError::Gateway(GatewayError::<variant>)
GatewayErr(variant) ==
    [ok |-> FALSE, err |-> variant, venue |-> "", errors |-> <<>>]

\* GatewayError::VenueNotFound(venue_name)
VenueNotFound(venue_name) ==
    [ok |-> FALSE, err |-> "VenueNotFound", venue |-> venue_name, errors |-> <<>>]

\* HashMap helpers
EmptyMap == [k \in {} |-> <<>>]

Insert(map, k, v) ==
    [x \in (DOMAIN map) \cup {k} |-> IF x = k THEN v ELSE map[x]]

\* --------------------------------------------------------- adapter methods
\* MockVenue::subscribe_quotes together with start_quote_generation.
\* The symbols are stored before the sender is looked at, so a mock without
\* a quote sender fails with ConnectionFailed after having stored them.
MockSubscribeQuotes(has_tx, running, subscribed, symbols) ==
    IF symbols = <<>>
    THEN [ok |-> FALSE, error |-> "SubscriptionFailed",
          running |-> running, subscribed |-> subscribed]
    ELSE IF running
    THEN [ok |-> TRUE, error |-> "none",
          running |-> running, subscribed |-> symbols]
    ELSE IF ~has_tx
    THEN [ok |-> FALSE, error |-> "ConnectionFailed",
          running |-> running, subscribed |-> symbols]
    ELSE [ok |-> TRUE, error |-> "none",
          running |-> TRUE, subscribed |-> symbols]

\* BinanceVenue::subscribe_quotes -> connect_websocket -> ws_connect_with_retry.
\* `connected` is the outcome of the bounded connect/retry loop: TRUE when an
\* attempt connected, FALSE when every attempt failed.
BinanceSubscribeQuotes(has_tx, symbols, connected) ==
    IF symbols = <<>> THEN [ok |-> FALSE, error |-> "SubscriptionFailed"]
    ELSE IF ~has_tx THEN [ok |-> FALSE, error |-> "ConnectionFailed"]
    ELSE IF connected THEN [ok |-> TRUE, error |-> "none"]
    ELSE [ok |-> FALSE, error |-> "ConnectionFailed"]

\* Dynamic dispatch of VenueAdapter::subscribe_quotes on adapter a.
\* mr / ms are the mock adapters' is_running / subscribed_symbols.
subscribe_quotes(a, symbols, connected, mr, ms) ==
    IF a \in MockAdapters
    THEN LET r == MockSubscribeQuotes(has_quote_tx(a), mr[a], ms[a], symbols)
         IN [ok |-> r.ok, error |-> r.error,
             mr |-> [mr EXCEPT ![a] = r.running],
             ms |-> [ms EXCEPT ![a] = r.subscribed]]
    ELSE LET r == BinanceSubscribeQuotes(has_quote_tx(a), symbols, connected)
         IN [ok |-> r.ok, error |-> r.error, mr |-> mr, ms |-> ms]

\* Dynamic dispatch of VenueAdapter::stop: MockVenue clears is_running,
\* BinanceVenue inherits the trait's default no-op.  Both return Ok.
stop(a, mr) ==
    IF a \in MockAdapters THEN [mr EXCEPT ![a] = FALSE] ELSE mr

\* What connect_async can do for adapter a within one subscribe_quotes call:
\* a streaming adapter either connects within its attempts or does not; a mock
\* opens no connection (its outcome is fixed and never read).
ConnectOutcomes(a) == IF a \in BinanceAdapters THEN BOOLEAN ELSE {TRUE}

\* The connection outcomes of one fan-out over the registry vs.
FanOutOutcomes(vs) ==
    {c \in [1..Len(vs) -> BOOLEAN] : \A i \in 1..Len(vs) : c[i] \in ConnectOutcomes(vs[i])}

\* One adapter call as recorded in last.calls.
Call(a, method, arg, ok, error) ==
    [adapter |-> a, method |-> method, arg |-> arg, ok |-> ok, error |-> error]

\* --------------------------------------------------------------- add_venue
\* Variant of PushVenue: an adapter whose name is already registered is not
\* pushed again.
PushVenueUnlessNamed(vs, a) ==
    IF \E i \in 1..Len(vs) : name(vs[i]) = name(a) THEN vs ELSE Append(vs, a)

\* venues.push(venue.clone())
PushVenue(vs, a) == Append(vs, a)

\* Variant of CatchUp: the entry's key is not compared with the adapter's name.
CatchUpAnyEntry(running, subs, venue_name) ==
    IF running /\ DOMAIN subs # {}
    THEN <<subs[CHOOSE k \in DOMAIN subs : TRUE]>>
    ELSE <<>>

\* The catch-up of add_venue: the symbol lists the new adapter is subscribed
\* to, one per subscription-table entry that carries the adapter's name and is
\* not empty, and only when the gateway is running.
CatchUp(running, subs, venue_name) ==
    IF running /\ venue_name \in DOMAIN subs /\ subs[venue_name] # <<>>
    THEN <<subs[venue_name]>>
    ELSE <<>>

add_venue(a) ==
    /\ Len(venues) < MaxVenues
    /\ \E connected \in ConnectOutcomes(a) :
        LET todo == CatchUp(is_running, subscriptions, name(a))
            r == IF todo = <<>>
                 THEN [ok |-> TRUE, error |-> "none",
                       mr |-> mock_is_running, ms |-> subscribed_symbols]
                 ELSE subscribe_quotes(a, todo[1], connected,
                                       mock_is_running, subscribed_symbols)
        IN /\ venues' = PushVenue(venues, a)
           /\ mock_is_running' = r.mr
           /\ subscribed_symbols' = r.ms
           /\ last' = [op |-> "add_venue", adapter |-> a, venue_name |-> name(a),
                       symbols |-> <<>>, result |-> Ok,
                       pre |-> [venues |-> venues,
                                subscriptions |-> subscriptions,
                                is_running |-> is_running],
                       calls |-> IF todo = <<>> THEN <<>>
                                 ELSE <<Call(a, "subscribe_quotes", todo[1],
                                             r.ok, r.error)>>]
    /\ UNCHANGED <<subscriptions, is_running>>
    /\ UNCHANGED <<bookVars, pipeVars, lockVars, adapterVars>>

\* ------------------------------------------------------------ remove_venue
\* The drain loop of remove_venue: `kept` is new_venues, `removed` every
\* adapter taken out of the registry, `removed_venue` the Option that is
\* overwritten by each match (so it ends up holding the last match).
RECURSIVE Drain(_, _, _)
Drain(vs, venue_name, acc) ==
    IF vs = <<>> THEN acc
    ELSE IF name(Head(vs)) # venue_name
    THEN Drain(Tail(vs), venue_name,
               [acc EXCEPT !.kept = Append(@, Head(vs))])
    ELSE Drain(Tail(vs), venue_name,
               [acc EXCEPT !.removed = Append(@, Head(vs)),
                           !.removed_venue = <<Head(vs)>>])

\* Variant of RemoveVenue: on the not-found path the drained registry is not
\* put back.
RemoveVenueLeavesDrained(vs, venue_name) ==
    LET d == Drain(vs, venue_name,
                   [kept |-> <<>>, removed |-> <<>>, removed_venue |-> <<>>])
    IN IF Len(d.kept) = Len(vs)
       THEN [venues |-> <<>>, result |-> VenueNotFound(venue_name),
             removed |-> <<>>, stopped |-> <<>>]
       ELSE [venues |-> d.kept, result |-> Ok,
             removed |-> d.removed, stopped |-> d.removed_venue]

\* remove_venue as a function of the registry: the registry afterwards, the
\* return value and the adapters stop() is called on.
RemoveVenue(vs, venue_name) ==
    LET d == Drain(vs, venue_name,
                   [kept |-> <<>>, removed |-> <<>>, removed_venue |-> <<>>])
    IN IF Len(d.kept) = Len(vs)
       THEN [venues |-> d.kept, result |-> VenueNotFound(venue_name),
             removed |-> <<>>, stopped |-> <<>>]
       ELSE [venues |-> d.kept, result |-> Ok,
             removed |-> d.removed, stopped |-> d.removed_venue]

remove_venue(venue_name) ==
    LET r == RemoveVenue(venues, venue_name)
    IN /\ venues' = r.venues
       /\ mock_is_running' =
              IF r.stopped = <<>> THEN mock_is_running
              ELSE stop(r.stopped[1], mock_is_running)
       /\ last' = [op |-> "remove_venue", adapter |-> "", venue_name |-> venue_name,
                   symbols |-> <<>>, result |-> r.result,
                   pre |-> [venues |-> venues,
                            subscriptions |-> subscriptions,
                            is_running |-> is_running],
                   calls |-> [i \in 1..Len(r.stopped) |->
                                 Call(r.stopped[i], "stop", <<>>, TRUE, "none")]]
       /\ UNCHANGED <<subscriptions, is_running, subscribed_symbols>>
       /\ UNCHANGED <<bookVars, pipeVars, lockVars, adapterVars>>

\* --------------------------------------------------------------- subscribe
\* Variant of SubscribePrecheck: the registry is looked at before the symbols.
SubscribePrecheckVenuesFirst(symbols, vs) ==
    IF vs = <<>> THEN "NoVenuesConfigured"
    ELSE IF symbols = <<>> THEN "InvalidSymbol"
    ELSE "proceed"

\* Variant of SubscribePrecheck: the empty-registry check is missing.
SubscribePrecheckNoVenueCheck(symbols, vs) ==
    IF symbols = <<>> THEN "InvalidSymbol" ELSE "proceed"

\* The two fail-fast checks at the head of subscribe, in source order.
SubscribePrecheck(symbols, vs) ==
    IF symbols = <<>> THEN "InvalidSymbol"
    ELSE IF vs = <<>> THEN "NoVenuesConfigured"
    ELSE "proceed"

\* The match on one venue's subscribe_quotes result: Ok stores the symbols
\* under the venue's name, Err pushes (venue_name, e) onto errors.
StoreResult(st, venue_name, symbols, ok, error) ==
    IF ok
    THEN [st EXCEPT !.subscriptions = Insert(@, venue_name, symbols)]
    ELSE [st EXCEPT !.errors = Append(@, [venue |-> venue_name, error |-> error])]

\* The fan-out loop `for venue in venues.iter()`; connected[i] is the outcome
\* of the connection attempts of the i-th venue, should it be a streaming one.
RECURSIVE SubscribeLoop(_, _, _, _, _)
SubscribeLoop(i, vs, symbols, connected, st) ==
    IF i > Len(vs) THEN st
    ELSE LET a == vs[i]
             r == subscribe_quotes(a, symbols, connected[i], st.mr, st.ms)
             st1 == [st EXCEPT !.mr = r.mr,
                               !.ms = r.ms,
                               !.calls = Append(@, Call(a, "subscribe_quotes",
                                                        symbols, r.ok, r.error))]
         IN SubscribeLoop(i + 1, vs, symbols, connected,
                          StoreResult(st1, name(a), symbols, r.ok, r.error))

\* Variant of AllFailed: a single failing venue fails the call.
AllFailedOnAnyError(errors, vs) == Len(errors) > 0

\* `errors.len() == venues.len()`
AllFailed(errors, vs) == Len(errors) = Len(vs)

\* Variant of ErrorMsg: only the first collected error is reported.
ErrorMsgFirstOnly(errors) == IF errors = <<>> THEN <<>> ELSE <<errors[1]>>

\* The aggregated message: one "venue: error" piece per collected error,
\* joined with ", " (kept as the sequence of its pieces).
ErrorMsg(errors) == [i \in 1..Len(errors) |-> errors[i]]

\* GatewayError::SubscriptionFailed(error_msg)
SubscriptionFailed(errors) ==
    [ok |-> FALSE, err |-> "SubscriptionFailed", venue |-> "",
     errors |-> ErrorMsg(errors)]

\* Variant of RunningAfterSubscribe: the flag is written before the
\* all-failed check instead of after it.
RunningAfterSubscribeEager(failed, running) == TRUE

\* The running flag when subscribe returns: written only on the Ok path.
RunningAfterSubscribe(failed, running) == IF failed THEN running ELSE TRUE

subscribe(symbols) ==
    LET pre == [venues |-> venues, subscriptions |-> subscriptions,
                is_running |-> is_running]
        check == SubscribePrecheck(symbols, venues)
    IN IF check # "proceed"
       THEN /\ last' = [op |-> "subscribe", adapter |-> "", venue_name |-> "",
                        symbols |-> symbols, result |-> GatewayErr(check),
                        pre |-> pre, calls |-> <<>>]
            /\ UNCHANGED <<venues, subscriptions, is_running,
                           mock_is_running, subscribed_symbols>>
            /\ UNCHANGED <<bookVars, pipeVars, lockVars, adapterVars>>
       ELSE \E connected \in FanOutOutcomes(venues) :
            LET st == SubscribeLoop(1, venues, symbols, connected,
                          [subscriptions |-> subscriptions, errors |-> <<>>,
                           mr |-> mock_is_running, ms |-> subscribed_symbols,
                           calls |-> <<>>])
                failed == AllFailed(st.errors, venues)
            IN /\ subscriptions' = st.subscriptions
               /\ mock_is_running' = st.mr
               /\ subscribed_symbols' = st.ms
               /\ is_running' = RunningAfterSubscribe(failed, is_running)
               /\ last' = [op |-> "subscribe", adapter |-> "", venue_name |-> "",
                           symbols |-> symbols,
                           result |-> IF failed THEN SubscriptionFailed(st.errors)
                                      ELSE Ok,
                           pre |-> pre, calls |-> st.calls]
               /\ UNCHANGED venues
               /\ UNCHANGED <<bookVars, pipeVars, lockVars, adapterVars>>

\* --------------------------------------------------------- unsubscribe_all
\* Variant of unsubscribe_all: every registered adapter is stopped as well.
unsubscribe_all_stopping ==
    /\ is_running' = FALSE
    /\ subscriptions' = EmptyMap
    /\ mock_is_running' = [a \in MockAdapters |->
                             IF \E i \in 1..Len(venues) : venues[i] = a
                             THEN FALSE ELSE mock_is_running[a]]
    /\ last' = [op |-> "unsubscribe_all", adapter |-> "", venue_name |-> "",
                symbols |-> <<>>, result |-> Ok,
                pre |-> [venues |-> venues, subscriptions |-> subscriptions,
                         is_running |-> is_running],
                calls |-> [i \in 1..Len(venues) |->
                              Call(venues[i], "stop", <<>>, TRUE, "none")]]
    /\ UNCHANGED <<venues, subscribed_symbols>>
    /\ UNCHANGED <<bookVars, pipeVars, lockVars, adapterVars>>

\* QuoteGateway::unsubscribe_all: the flag is cleared, then the table.
unsubscribe_all ==
    /\ is_running' = FALSE
    /\ subscriptions' = EmptyMap
    /\ last' = [op |-> "unsubscribe_all", adapter |-> "", venue_name |-> "",
                symbols |-> <<>>, result |-> Ok,
                pre |-> [venues |-> venues, subscriptions |-> subscriptions,
                         is_running |-> is_running],
                calls |-> <<>>]
    /\ UNCHANGED <<venues, mock_is_running, subscribed_symbols>>
    /\ UNCHANGED <<bookVars, pipeVars, lockVars, adapterVars>>

\* ------------------------------------------------------- get_subscriptions
\* QuoteGateway::get_subscriptions: a clone of the subscription table.
get_subscriptions == subscriptions

\* -------------------------------------------------------------- order book
\* Quote (types.rs).  An f64 price is kept as the integer number of 10^-9
\* units it holds, an f64 size as an integer number of size units; the
\* timestamp plays no part in the book.
Quote(symbol, bid, ask, bid_size, ask_size, venue) ==
    [symbol |-> symbol, bid |-> bid, ask |-> ask, bid_size |-> bid_size,
     ask_size |-> ask_size, venue |-> venue, timestamp |-> 0]

\* const PRICE_MULTIPLIER: f64 = 100_000_000.0
PRICE_MULTIPLIER == 100000000

\* `(price * PRICE_MULTIPLIER) as i64` for a positive price: with the price in
\* 10^-9 units the product is price / 10, and the cast drops the fraction.
ScalePrice(price) == price \div ((10 * PRICE_MULTIPLIER) \div PRICE_MULTIPLIER)

\* `(p as f64) / PRICE_MULTIPLIER`, again in 10^-9 units.
DescalePrice(p) == p * ((10 * PRICE_MULTIPLIER) \div PRICE_MULTIPLIER)

Level(price, size) == [price |-> price, size |-> size]

\* Variant of BTreeInsert: a key that is already present is not replaced, the
\* new entry is put in front of it.
RECURSIVE BTreeInsertNoReplace(_, _, _)
BTreeInsertNoReplace(levels, price, size) ==
    IF levels = <<>> THEN <<Level(price, size)>>
    ELSE IF Head(levels).price >= price
    THEN <<Level(price, size)>> \o levels
    ELSE <<Head(levels)>> \o BTreeInsertNoReplace(Tail(levels), price, size)

\* BTreeMap<i64, f64>::insert.  The map is the sequence of its entries in
\* ascending key order; insert replaces the value of a key that is present
\* and otherwise puts the entry at its place in the order.
RECURSIVE BTreeInsert(_, _, _)
BTreeInsert(levels, price, size) ==
    IF levels = <<>> THEN <<Level(price, size)>>
    ELSE IF Head(levels).price = price
    THEN <<Level(price, size)>> \o Tail(levels)
    ELSE IF Head(levels).price > price
    THEN <<Level(price, size)>> \o levels
    ELSE <<Head(levels)>> \o BTreeInsert(Tail(levels), price, size)

\* OrderBook::new
OrderBookNew(symbol) == [symbol |-> symbol, bids |-> <<>>, asks |-> <<>>]

\* OrderBook::update: each side is inserted when its price is > 0, with the
\* quote's size whatever it is.
OrderBookUpdate(book, quote) ==
    LET b1 == IF quote.bid > 0
              THEN [book EXCEPT !.bids = BTreeInsert(@, ScalePrice(quote.bid),
                                                     quote.bid_size)]
              ELSE book
    IN IF quote.ask > 0
       THEN [b1 EXCEPT !.asks = BTreeInsert(@, ScalePrice(quote.ask),
                                            quote.ask_size)]
       ELSE b1

\* Option::None
None == <<>>

\* Variant of best_bid: iter().next() instead of iter().next_back().
best_bid_front(book) ==
    IF book.bids = <<>> THEN None
    ELSE <<DescalePrice(book.bids[1].price), book.bids[1].size>>

\* OrderBook::best_bid: the last entry of bids, descaled.
best_bid(book) ==
    IF book.bids = <<>> THEN None
    ELSE <<DescalePrice(book.bids[Len(book.bids)].price),
           book.bids[Len(book.bids)].size>>

\* OrderBook::best_ask: the first entry of asks, descaled.
best_ask(book) ==
    IF book.asks = <<>> THEN None
    ELSE <<DescalePrice(book.asks[1].price), book.asks[1].size>>

\* Quotes handed to OrderBook::update.  Bid prices 10 and 15 fall on the same
\* scaled price; a price of 0 leaves its side alone; sizes include 0.
BidPrices == {0, 10, 15, 20}
AskPrices == {0, 20, 30}
BidSizes == {0, 1, 2}
AskSizes == {0, 1}

BookQuotes ==
    {Quote("BTCUSDT", b, a, bs, as, "TEST") :
        b \in BidPrices, a \in AskPrices, bs \in BidSizes, as \in AskSizes}

\* Quotes of a moving market, from two venues, each with 0 < bid < ask and
\* sizes > 0.
SpreadQuotes ==
    {q \in {Quote("BTCUSDT", b, a, bs, as, v) :
               b \in {10, 20, 30}, a \in {20, 30, 40}, bs \in {1, 2},
               as \in {1, 2}, v \in {"MOCK1", "MOCK2"}} : q.bid < q.ask}

\* The quote ob_last holds before any update.
NoQuote == Quote("", 0, 0, 0, 0, "")

\* book.update(&quote) on the directly driven OrderBook.
update(quote) ==
    /\ ob' = OrderBookUpdate(ob, quote)
    /\ ob_last' = [quote |-> quote, pre |-> ob]
    /\ UNCHANGED <<gatewayVars, last, norm_last, pipeVars, lockVars,
                   adapterVars>>

\* ------------------------------------------------------- f64 price scaling
\* Natural numbers beyond the machine word, as sequences of base-4096 digits
\* with the lowest digit first; f64 mantissas and their products need them.
RECURSIVE Trim(_)
Trim(a) ==
    IF a = <<>> \/ a[Len(a)] # 0 THEN a ELSE Trim(SubSeq(a, 1, Len(a) - 1))

\* a * c + carry, for c below 2^19.
RECURSIVE MulAdd(_, _, _)
MulAdd(a, c, carry) ==
    IF a = <<>>
    THEN IF carry = 0 THEN <<>>
         ELSE <<carry % 4096>> \o MulAdd(<<>>, c, carry \div 4096)
    ELSE LET t == Head(a) * c + carry
         IN <<t % 4096>> \o MulAdd(Tail(a), c, t \div 4096)

\* Quotient and remainder of a by c, for c below 2^19.
RECURSIVE DivMod(_, _)
DivMod(a, c) ==
    IF a = <<>> THEN [q |-> <<>>, r |-> 0]
    ELSE LET hi == DivMod(Tail(a), c)
             t == hi.r * 4096 + Head(a)
         IN [q |-> <<t \div c>> \o hi.q, r |-> t % c]

\* The number of binary digits of a machine integer and of a long number.
RECURSIVE Bits(_)
Bits(n) == IF n = 0 THEN 0 ELSE 1 + Bits(n \div 2)

BitLen(a) ==
    LET t == Trim(a)
    IN IF t = <<>> THEN 0 ELSE 12 * (Len(t) - 1) + Bits(t[Len(t)])

\* a * 2^s
ShiftLeft(a, s) ==
    [i \in 1..(s \div 12) |-> 0] \o MulAdd(a, 2 ^ (s % 12), 0)

\* a \div 2^s, and whether any of the digits shifted out was set.
ShiftRight(a, s) ==
    LET w == s \div 12
        low == SubSeq(a, 1, IF w < Len(a) THEN w ELSE Len(a))
        high == SubSeq(a, w + 1, Len(a))
        d == DivMod(high, 2 ^ (s % 12))
    IN [q |-> Trim(d.q),
        sticky |-> d.r # 0 \/ \E i \in 1..Len(low) : low[i] # 0]

\* A positive f64: mantissa m with 53 binary digits and exponent e, of value
\* m * 2^e.  RoundF64 is the rounding every f64 operation ends with: the
\* exact result x * 2^e (plus a fraction below one unit of x when sticky),
\* x of 54 digits or more, is cut to 53 digits, to nearest, ties to even.
RoundF64(x, sticky, e) ==
    LET d == BitLen(x) - 54
        cut == ShiftRight(x, d)
        half == ShiftRight(cut.q, 1)
        inexact == sticky \/ cut.sticky
        up == half.sticky /\ (inexact \/ half.q[1] % 2 = 1)
        m == IF up THEN Trim(MulAdd(half.q, 1, 1)) ELSE half.q
    IN IF BitLen(m) = 54
       THEN [m |-> ShiftRight(m, 1).q, e |-> e + d + 2]
       ELSE [m |-> m, e |-> e + d + 1]

\* The f64 nearest to n / 10^8 (n > 0): a decimal literal with 8 decimals,
\* and also `(n as f64) / PRICE_MULTIPLIER` for n below 2^53, both correctly
\* rounded.  10^8 = 390625 * 2^8.
DivByMultiplier(n) ==
    LET t == 74 - BitLen(n)
        d == DivMod(ShiftLeft(n, t), PRICE_MULTIPLIER \div 256)
    IN RoundF64(Trim(d.q), d.r # 0, 0 - (t + 8))

\* x * PRICE_MULTIPLIER in f64: the exact product, rounded.
MulByMultiplier(x) ==
    RoundF64(Trim(MulAdd(x.m, PRICE_MULTIPLIER \div 256, 0)), FALSE, x.e + 8)

\* `as i64` on a positive f64: the fraction is dropped.
AsI64(x) ==
    IF x.e >= 0 THEN Trim(ShiftLeft(x.m, x.e))
    ELSE ShiftRight(x.m, 0 - x.e).q

\* A price with 8 decimals, whole.frac, as the integer whole * 10^8 + frac,
\* and such an integer back as <<whole, frac>>.
PriceUnits(whole, frac) ==
    Trim(MulAdd(MulAdd(MulAdd(<<>>, 1, whole), 10000, 0), 10000, frac))

UnitsAsPrice(n) ==
    LET lo == DivMod(n, 10000)
        hi == DivMod(lo.q, 10000)
        top == Trim(hi.q)
    IN <<IF top = <<>> THEN 0
         ELSE IF Len(top) = 1 THEN top[1]
         ELSE top[1] + 4096 * top[2],
         hi.r * 10000 + lo.r>>

\* The prices put through the scaling: whole part 0, 1 or 50000 with every
\* number of cents, and the price of test_price_normalization with its ask.
ScaledPrices ==
    {<<w, c * 1000000>> : w \in {0, 1, 50000}, c \in 1..99}
        \cup {<<50000, 12345678>>, <<50000, 12345679>>}

\* OrderBook::update on an empty book followed by best_bid, in f64: the bid
\* as the f64 of its literal, its key `(bid * PRICE_MULTIPLIER) as i64`, and
\* the price best_bid returns, `(key as f64) / PRICE_MULTIPLIER`.
update_f64(price) ==
    LET bid == DivByMultiplier(PriceUnits(price[1], price[2]))
        key == AsI64(MulByMultiplier(bid))
    IN /\ norm_last' = [price |-> price, bid |-> bid,
                        key |-> UnitsAsPrice(key),
                        best_bid |-> DivByMultiplier(key)]
       /\ UNCHANGED <<gatewayVars, last, ob, ob_last, pipeVars, lockVars,
                      adapterVars>>

\* ------------------------------------------------------------ quote channel
\* The adapters whose forwarding tasks are followed on the channel: one mock
\* venue (generation loop) and one streaming adapter (websocket loop).
QuoteSources == {"M1", "B1"}

\* Every holder of an mpsc::Sender<Quote>: QuoteGateway.quote_tx and the
\* quote_tx of each adapter built with one (its task works on a clone).
SenderHolders == {"gateway"} \cup {a \in QuoteSources : has_quote_tx(a)}

\* Variant of send: the quote is put in front of the buffered quotes.
sendFront(buf, rx_dropped, quote) ==
    IF rx_dropped THEN [ok |-> FALSE, buf |-> buf]
    ELSE [ok |-> TRUE, buf |-> <<quote>> \o buf]

\* mpsc::Sender::send once it completes: Err(SendError) when the receiver is
\* gone, otherwise the value is queued behind the buffered ones.
send(buf, rx_dropped, quote) ==
    IF rx_dropped THEN [ok |-> FALSE, buf |-> buf]
    ELSE [ok |-> TRUE, buf |-> Append(buf, quote)]

\* Variant of SendCompletes: a send completes whatever the channel holds.
SendCompletesWhenFull(buf, rx_dropped) == TRUE

\* send(..).await is suspended while the receiver lives and the channel is full.
SendCompletes(buf, rx_dropped) == rx_dropped \/ Len(buf) < ChannelCapacity

\* Variant of recv: the oldest quote is returned and the one behind it is
\* discarded with it.
recvSkipping(buf) ==
    [quote |-> Head(buf),
     buf |-> IF Len(buf) >= 2 THEN Tail(Tail(buf)) ELSE Tail(buf)]

\* mpsc::Receiver::recv returning Some(quote): the oldest buffered quote.
recv(buf) == [quote |-> Head(buf), buf |-> Tail(buf)]

\* Variant of RecvNone: None as soon as nothing is buffered.
RecvNoneWhenEmpty(buf, snd) == buf = <<>>

\* mpsc::Receiver::recv returning None: nothing buffered and no sender left.
RecvNone(buf, snd) == buf = <<>> /\ snd = {}

\* IntCounterVec::with_label_values(labels).inc()
Inc(counter, labels) ==
    IF labels \in DOMAIN counter
    THEN [counter EXCEPT ![labels] = @ + 1]
    ELSE Insert(counter, labels, 1)

\* Sum of a counter over its label values.
RECURSIVE Total(_)
Total(counter) ==
    IF DOMAIN counter = {} THEN 0
    ELSE LET k == CHOOSE x \in DOMAIN counter : TRUE
         IN counter[k] + Total([x \in DOMAIN counter \ {k} |-> counter[x]])

\* SystemTime::now() as a logical clock: the number of quotes queued so far.
Now == Len(sent) + 1

\* A quote of the pipeline: fixed prices and sizes, stamped with the clock.
PipelineQuote(symbol, venue) ==
    [Quote(symbol, 10, 20, 1, 1, venue) EXCEPT !.timestamp = Now]

PipelineSymbols == {"BTCUSDT", "ETHUSDT"}

\* Variant of ProcessQuoteResult: the send error is swallowed.
ProcessQuoteResultSwallowed(sent_ok) == Ok

\* map_err(|e| GatewayError::ChannelSendFailed(..)) on the result of send.
ProcessQuoteResult(sent_ok) ==
    IF sent_ok THEN Ok ELSE GatewayErr("ChannelSendFailed")

\* QuoteGateway::process_quote: count the quote, then send it.
process_quote(quote) ==
    LET r == send(chan, builder = "dropped", quote) IN
    /\ SendCompletes(chan, builder = "dropped")
    /\ throughput' = Inc(throughput, <<quote.symbol, quote.venue>>)
    /\ chan' = r.buf
    /\ sent' = IF r.ok THEN Append(sent, quote) ELSE sent
    /\ last' = [op |-> "process_quote", adapter |-> "", venue_name |-> "",
                symbols |-> <<>>, result |-> ProcessQuoteResult(r.ok),
                pre |-> [venues |-> venues, subscriptions |-> subscriptions,
                         is_running |-> is_running],
                calls |-> <<>>, quote |-> quote]
    /\ UNCHANGED <<gatewayVars, bookVars, lockVars, adapterVars, senders, builder, books,
                   orderbook_updates, applied>>

\* One quote of MockVenue's generation loop (start_quote_generation): the
\* loop runs while is_running, takes a subscribed symbol and sends its quote.
\* A failed send only leaves the inner loop and changes nothing.
mock_send(a, symbol) ==
    LET quote == PipelineQuote(symbol, name(a))
        r == send(chan, builder = "dropped", quote) IN
    /\ a \in senders
    /\ mock_is_running[a]
    /\ \E i \in 1..Len(subscribed_symbols[a]) : subscribed_symbols[a][i] = symbol
    /\ SendCompletes(chan, builder = "dropped")
    /\ r.ok
    /\ chan' = r.buf
    /\ sent' = Append(sent, quote)
    /\ UNCHANGED <<gatewayVars, last, bookVars, lockVars, adapterVars, senders, builder, books,
                   orderbook_updates, throughput, applied>>

\* One valid ticker of BinanceVenue's websocket loop
\* (process_websocket_messages): the quote is built and sent; a failed send
\* is logged and changes nothing.  The loop is spawned by any successful
\* subscribe_quotes on the adapter and the adapter keeps no record of it, so
\* a tick may arrive whenever the adapter holds its sender.
binance_send(a, symbol) ==
    LET quote == PipelineQuote(symbol, name(a))
        r == send(chan, builder = "dropped", quote) IN
    /\ a \in senders
    /\ SendCompletes(chan, builder = "dropped")
    /\ r.ok
    /\ chan' = r.buf
    /\ sent' = Append(sent, quote)
    /\ UNCHANGED <<gatewayVars, last, bookVars, lockVars, adapterVars, senders, builder, books,
                   orderbook_updates, throughput, applied>>

\* The gateway is dropped by its owner: its sender and its registry go.
drop_gateway ==
    /\ "gateway" \in senders
    /\ senders' = senders \ {"gateway"}
    /\ UNCHANGED <<gatewayVars, last, bookVars, lockVars, adapterVars, chan, builder, books,
                   orderbook_updates, throughput, sent, applied>>

\* An adapter and its task are gone: possible once the registry no longer
\* holds the Arc and, for a mock, once its generation loop has been stopped
\* (the loop owns a clone of the sender while is_running).
drop_adapter(a) ==
    /\ a \in senders
    /\ "gateway" \notin senders \/ \A i \in 1..Len(venues) : venues[i] # a
    /\ a \in MockAdapters => ~mock_is_running[a]
    /\ senders' = senders \ {a}
    /\ UNCHANGED <<gatewayVars, last, bookVars, lockVars, adapterVars, chan, builder, books,
                   orderbook_updates, throughput, sent, applied>>

\* The BookBuilder (and with it the receiver) is dropped, before run is
\* called or by aborting the task that runs it: buffered quotes are dropped.
drop_builder ==
    /\ builder \in {"created", "running"}
    /\ builder' = "dropped"
    /\ chan' = <<>>
    /\ UNCHANGED <<gatewayVars, last, bookVars, lockVars, adapterVars, senders, books,
                   orderbook_updates, throughput, sent, applied>>

\* -------------------------------------------------------------- BookBuilder
\* Variant of BookBuilderProcessQuote: the map is rebuilt with the quote's
\* book alone.
BookBuilderProcessQuoteAlone(bks, quote) ==
    Insert(EmptyMap, quote.symbol,
           OrderBookUpdate(OrderBookNew(quote.symbol), quote))

\* BookBuilder::process_quote on the book map: entry(symbol).or_insert_with(
\* OrderBook::new), then update.
BookBuilderProcessQuote(bks, quote) ==
    LET book == IF quote.symbol \in DOMAIN bks THEN bks[quote.symbol]
                ELSE OrderBookNew(quote.symbol)
    IN Insert(bks, quote.symbol, OrderBookUpdate(book, quote))

\* BookBuilder::run is called.
run ==
    /\ builder = "created"
    /\ builder' = "running"
    /\ UNCHANGED <<gatewayVars, last, bookVars, lockVars, adapterVars, chan, senders, books,
                   orderbook_updates, throughput, sent, applied>>

\* One iteration of run: recv yields Some(quote), process_quote applies it
\* and counts the update.
run_recv ==
    /\ builder = "running"
    /\ chan # <<>>
    /\ chan' = recv(chan).buf
    /\ books' = BookBuilderProcessQuote(books, recv(chan).quote)
    /\ orderbook_updates' = Inc(orderbook_updates, recv(chan).quote.symbol)
    /\ applied' = Append(applied, recv(chan).quote)
    /\ UNCHANGED <<gatewayVars, last, bookVars, lockVars, adapterVars, senders, builder,
                   throughput, sent>>

\* recv yields None: the loop ends and run returns.
run_return ==
    /\ builder = "running"
    /\ RecvNone(chan, senders)
    /\ builder' = "returned"
    /\ UNCHANGED <<gatewayVars, last, bookVars, lockVars, adapterVars, chan, senders, books,
                   orderbook_updates, throughput, sent, applied>>

\* --------------------------------------------------------- streaming adapter
\* An f64 as far as the adapter looks at it: finite, infinite or NaN, and
\* its sign (0 for zero and for NaN).
F64(kind, sign) == [kind |-> kind, sign |-> sign]

\* The classes of field strings of a bookTicker message and what
\* str::parse::<f64> makes of each: Ok(value), or Err for text that is no
\* number.  "NaN", "inf" and "-inf" are numbers to the parser.
FieldStrings == {"1.5", "0", "-1.5", "abc", "NaN", "inf", "-inf"}

parse_f64(str) ==
    CASE str = "1.5"  -> [ok |-> TRUE, value |-> F64("finite", 1)]
      [] str = "0"    -> [ok |-> TRUE, value |-> F64("finite", 0)]
      [] str = "-1.5" -> [ok |-> TRUE, value |-> F64("finite", -1)]
      [] str = "NaN"  -> [ok |-> TRUE, value |-> F64("nan", 0)]
      [] str = "inf"  -> [ok |-> TRUE, value |-> F64("infinite", 1)]
      [] str = "-inf" -> [ok |-> TRUE, value |-> F64("infinite", -1)]
      [] OTHER        -> [ok |-> FALSE, value |-> F64("finite", 0)]

\* field.parse::<f64>().map_err(..).unwrap_or(0.0)
ParseField(str) ==
    IF parse_f64(str).ok THEN parse_f64(str).value ELSE F64("finite", 0)

\* `x <= 0.0` on f64: false for NaN, as every comparison with NaN is.
LeZero(x) == x.kind # "nan" /\ x.sign <= 0

\* A websocket text message: a bookTicker (serde_json::from_str succeeds) with
\* its four numeric strings, or any other text (from_str fails).
Ticker(symbol, b, bq, a, aq) ==
    [envelope |-> "bookTicker", symbol |-> symbol, best_bid_price |-> b,
     best_bid_quantity |-> bq, best_ask_price |-> a, best_ask_quantity |-> aq]

OtherText ==
    [envelope |-> "other", symbol |-> "", best_bid_price |-> "",
     best_bid_quantity |-> "", best_ask_price |-> "", best_ask_quantity |-> ""]

Messages ==
    {Ticker("BTCUSDT", b, bq, a, aq) :
        b \in FieldStrings, bq \in FieldStrings,
        a \in FieldStrings, aq \in FieldStrings} \cup {OtherText}

\* The body of the receive loop for one Ok(msg) up to the send: parse the
\* envelope, parse the four fields, validate, build the Quote.  The outcome
\* is Some(quote) as <<quote>>, or None with the branch that dropped the
\* message.
HandleMessage(msg, now) ==
    IF msg.envelope # "bookTicker"
    THEN [branch |-> "parse_error", quote |-> None]
    ELSE LET bid == ParseField(msg.best_bid_price)
             ask == ParseField(msg.best_ask_price)
             bid_size == ParseField(msg.best_bid_quantity)
             ask_size == ParseField(msg.best_ask_quantity)
         IN IF LeZero(bid) \/ LeZero(ask) \/ LeZero(bid_size) \/ LeZero(ask_size)
            THEN [branch |-> "invalid", quote |-> None]
            ELSE [branch |-> "quote",
                  quote |-> <<[Quote(msg.symbol, bid, ask, bid_size, ask_size,
                                     "BINANCE_FUTURES")
                               EXCEPT !.timestamp = now]>>]

\* tick_last before any message was handled.
NoTick == [msg |-> [envelope |-> "none"], quote |-> None]

\* One message through the conversion of the receive loop.
handle_message(msg) ==
    /\ tick_last' = [msg |-> msg, quote |-> HandleMessage(msg, 0).quote]
    /\ UNCHANGED <<gatewayVars, last, bookVars, pipeVars, lockVars, loops>>

\* ------------------------------------------------------------ adapter tasks
\* const RECONNECT_DELAY_MS: u64 = 5000
RECONNECT_DELAY_MS == 5000

\* const MAX_RECONNECT_ATTEMPTS: usize = 5
MAX_RECONNECT_ATTEMPTS == 5

\* The BinanceVenue instances whose subscribe_quotes is called directly: B1
\* was given a quote sender, B0 is as BinanceVenue::new leaves it (quote_tx
\* None), the way Services::new builds its adapter.
StreamingAdapters == {"B1", "B0"}

\* What connect_async returns on one attempt: a stream, or one of two errors.
ConnectErrors == {"refused", "timeout"}

\* The outcomes of the attempts one call can make, attempt by attempt:
\* connect_async is not called again once an attempt has connected, so the
\* outcomes behind the first "ok" are left at "ok".
AttemptOutcomes ==
    {o \in [1..MAX_RECONNECT_ATTEMPTS -> {"ok"} \cup ConnectErrors] :
        \A n \in 1..(MAX_RECONNECT_ATTEMPTS - 1) : o[n] = "ok" => o[n + 1] = "ok"}

\* Variant of GiveUp: the retry loop gives up one attempt early.
GiveUpEarly(attempts, max_attempts) == attempts + 1 >= max_attempts

\* if attempts >= max_attempts { return Err(ConnectionFailed(..)) }
GiveUp(attempts, max_attempts) == attempts >= max_attempts

\* The loop of ws_connect_with_retry from the state (attempts, time slept):
\* count the attempt, return Ok when it connects, give up with the attempt
\* count and the error when the bound is reached, otherwise sleep
\* RECONNECT_DELAY_MS and go round again.
RECURSIVE RetryLoop(_, _, _, _)
RetryLoop(outcomes, max_attempts, attempts, slept_ms) ==
    LET n == attempts + 1 IN
    IF outcomes[n] = "ok"
    THEN [ok |-> TRUE, error |-> "none", attempts |-> n, cause |-> "none",
          slept_ms |-> slept_ms]
    ELSE IF GiveUp(n, max_attempts)
    THEN [ok |-> FALSE, error |-> "ConnectionFailed", attempts |-> n,
          cause |-> outcomes[n], slept_ms |-> slept_ms]
    ELSE RetryLoop(outcomes, max_attempts, n, slept_ms + RECONNECT_DELAY_MS)

ws_connect_with_retry(outcomes, max_attempts) ==
    RetryLoop(outcomes, max_attempts, 0, 0)

\* connect_websocket: without a quote sender it fails before any attempt.
connect_websocket(has_tx, outcomes) ==
    IF ~has_tx
    THEN [ok |-> FALSE, error |-> "ConnectionFailed", attempts |-> 0,
          cause |-> "Quote sender not configured", slept_ms |-> 0]
    ELSE ws_connect_with_retry(outcomes, MAX_RECONNECT_ATTEMPTS)

\* Variant of BinanceSubscribe: the connection is made before the symbol
\* list is looked at.
BinanceSubscribeConnectFirst(has_tx, symbols, outcomes) ==
    connect_websocket(has_tx, outcomes)

\* BinanceVenue::subscribe_quotes: the empty list is refused first, then
\* connect_websocket decides.
BinanceSubscribe(has_tx, symbols, outcomes) ==
    IF symbols = <<>>
    THEN [ok |-> FALSE, error |-> "SubscriptionFailed", attempts |-> 0,
          cause |-> "Empty symbol list", slept_ms |-> 0]
    ELSE connect_websocket(has_tx, outcomes)

\* A background task as tokio::spawn leaves it: the adapter it belongs to,
\* whether it still runs, the messages or quotes it went through, what it
\* did with the last one, how many it dropped as unusable, whether a send of
\* its has failed, whether stop was
\* called on its adapter since, the quotes it queued after that, and for a
\* generation task the symbols of the iteration in progress and its position
\* in them (0 at the head of the while loop).
NewLoop(a) ==
    [adapter |-> a, state |-> "running", steps |-> 0, last_branch |-> "none",
     dropped |-> 0, failed |-> FALSE, stop_seen |-> FALSE, late |-> 0, symbols |-> <<>>,
     idx |-> 0]

\* The messages and iterations all tasks together have gone through.
RECURSIVE StepsUpTo(_)
StepsUpTo(n) == IF n = 0 THEN 0 ELSE loops[n].steps + StepsUpTo(n - 1)

Steps == StepsUpTo(Len(loops))

\* The tasks that have ended, by position in spawn order.
EndedLoops == {i \in 1..Len(loops) : loops[i].state = "ended"}

\* Symbol lists handed to an adapter's subscribe_quotes.
AdapterSymbolLists == {<<>>, <<"BTCUSDT", "ETHUSDT">>}

\* A call of BinanceVenue::subscribe_quotes on adapter a.  A connection that
\* is made spawns a receive task (process_websocket_messages); the adapter
\* keeps no handle of it and no record of being connected.
binance_subscribe_quotes(a, symbols, outcomes) ==
    LET r == BinanceSubscribe(has_quote_tx(a), symbols, outcomes) IN
    /\ r.ok => Len(loops) < MaxLoops
    /\ loops' = IF r.ok THEN Append(loops, NewLoop(a)) ELSE loops
    /\ last' = [op |-> "subscribe_quotes", adapter |-> a,
                venue_name |-> name(a), symbols |-> symbols, result |-> r,
                outcomes |-> outcomes, ended |-> EndedLoops]
    /\ UNCHANGED <<gatewayVars, bookVars, pipeVars, lockVars, tick_last>>

\* A call of MockVenue::subscribe_quotes on adapter a.  start_quote_generation
\* spawns a generation task when is_running was false.
mock_subscribe_quotes(a, symbols) ==
    LET r == MockSubscribeQuotes(has_quote_tx(a), mock_is_running[a],
                                 subscribed_symbols[a], symbols)
        spawned == r.running /\ ~mock_is_running[a] IN
    /\ spawned => Len(loops) < MaxLoops
    /\ mock_is_running' = [mock_is_running EXCEPT ![a] = r.running]
    /\ subscribed_symbols' = [subscribed_symbols EXCEPT ![a] = r.subscribed]
    /\ loops' = IF spawned THEN Append(loops, NewLoop(a)) ELSE loops
    /\ last' = [op |-> "subscribe_quotes", adapter |-> a,
                venue_name |-> name(a), symbols |-> symbols,
                result |-> [ok |-> r.ok, error |-> r.error, attempts |-> 0,
                            cause |-> "none", slept_ms |-> 0],
                outcomes |-> <<>>, ended |-> EndedLoops]
    /\ UNCHANGED <<venues, subscriptions, is_running, bookVars, pipeVars,
                   lockVars, tick_last>>

\* A call of VenueAdapter::stop on adapter a: MockVenue clears is_running,
\* BinanceVenue has the trait's default, which does nothing.
adapter_stop(a) ==
    /\ mock_is_running' = stop(a, mock_is_running)
    /\ loops' = [i \in 1..Len(loops) |->
                    IF loops[i].adapter = a /\ loops[i].state = "running"
                    THEN [loops[i] EXCEPT !.stop_seen = TRUE]
                    ELSE loops[i]]
    /\ UNCHANGED <<venues, subscriptions, is_running, subscribed_symbols, last,
                   bookVars, pipeVars, lockVars, tick_last>>

\* The websocket messages a receive task is fed: a valid ticker, one with a
\* zero bid and text that is no ticker.
StreamMessages ==
    {Ticker("BTCUSDT", "1.5", "1.5", "1.5", "1.5"),
     Ticker("BTCUSDT", "0", "1.5", "1.5", "1.5"),
     OtherText}

\* Variant of AfterMessage: text that does not parse ends the receive loop.
AfterMessageStrict(branch) ==
    IF branch = "parse_error" THEN "ended" ELSE "running"

\* Where the receive loop stands after an Ok(msg), whatever was done with
\* it: `continue`, or the end of the body, and the next read.
AfterMessage(branch) == "running"

\* Some(Ok(msg)) in the receive task i: the message is converted and a quote
\* it yields is sent; a send error is logged and the loop goes on.
ws_message(i, msg) ==
    /\ i \in 1..Len(loops)
    /\ loops[i].adapter \in StreamingAdapters
    /\ loops[i].state = "running"
    /\ Steps < MaxQuotes
    /\ LET l == loops[i]
           h == HandleMessage(msg, Now)
           rx_dropped == builder = "dropped"
           forwards == h.quote # None
           r == IF forwards THEN send(chan, rx_dropped, h.quote[1])
                ELSE [ok |-> TRUE, buf |-> chan]
       IN /\ forwards => SendCompletes(chan, rx_dropped)
          /\ chan' = r.buf
          /\ sent' = IF forwards /\ r.ok THEN Append(sent, h.quote[1]) ELSE sent
          /\ loops' = [loops EXCEPT ![i] =
                [l EXCEPT !.steps = @ + 1,
                          !.last_branch = h.branch,
                          !.dropped = IF forwards THEN @ ELSE @ + 1,
                          !.failed = @ \/ ~r.ok,
                          !.late = IF forwards /\ r.ok /\ l.stop_seen
                                   THEN @ + 1 ELSE @,
                          !.state = AfterMessage(h.branch)]]
    /\ UNCHANGED <<gatewayVars, last, bookVars, lockVars, tick_last, senders,
                   builder, books, orderbook_updates, throughput, applied>>

\* Some(Err(e)) in the receive task i: the error is logged and the loop
\* reads again.
ws_error(i) ==
    /\ i \in 1..Len(loops)
    /\ loops[i].adapter \in StreamingAdapters
    /\ loops[i].state = "running"
    /\ Steps < MaxQuotes
    /\ loops' = [loops EXCEPT ![i] =
                    [@ EXCEPT !.steps = @ + 1, !.last_branch = "ws_error"]]
    /\ UNCHANGED <<gatewayVars, last, bookVars, pipeVars, lockVars, tick_last>>

\* None in the receive task i (the stream has ended): "WebSocket stream
\* ended unexpectedly" is logged and the task returns.
ws_closed(i) ==
    /\ i \in 1..Len(loops)
    /\ loops[i].adapter \in StreamingAdapters
    /\ loops[i].state = "running"
    /\ loops' = [loops EXCEPT ![i] = [@ EXCEPT !.state = "ended"]]
    /\ UNCHANGED <<gatewayVars, last, bookVars, pipeVars, lockVars, tick_last>>

\* The head of the generation task i: `while *is_running.read().await`, then
\* the subscribed symbols are read for the iteration.
mock_iterate(i) ==
    /\ i \in 1..Len(loops)
    /\ loops[i].adapter \in MockAdapters
    /\ loops[i].state = "running"
    /\ loops[i].idx = 0
    /\ mock_is_running[loops[i].adapter] => Steps < MaxQuotes
    /\ loops' = [loops EXCEPT ![i] =
                    IF ~mock_is_running[@.adapter]
                    THEN [@ EXCEPT !.state = "ended"]
                    ELSE [@ EXCEPT !.steps = @ + 1,
                                   !.symbols = subscribed_symbols[loops[i].adapter],
                                   !.idx = IF subscribed_symbols[loops[i].adapter] = <<>>
                                           THEN 0 ELSE 1]]
    /\ UNCHANGED <<gatewayVars, last, bookVars, pipeVars, lockVars, tick_last>>

\* The position after symbol idx of the iteration: the next symbol, or the
\* head of the while loop.
NextIdx(l) == IF l.idx < Len(l.symbols) THEN l.idx + 1 ELSE 0

\* One symbol of the iteration in progress of the generation task i: it is
\* skipped (`continue`), or its quote is sent; a send error leaves the for
\* loop (`break`) and the while loop goes on.
mock_quote(i, skip) ==
    /\ i \in 1..Len(loops)
    /\ loops[i].adapter \in MockAdapters
    /\ loops[i].state = "running"
    /\ loops[i].idx >= 1
    /\ LET l == loops[i]
           quote == PipelineQuote(l.symbols[l.idx], name(l.adapter))
           rx_dropped == builder = "dropped"
           r == IF skip THEN [ok |-> TRUE, buf |-> chan]
                ELSE send(chan, rx_dropped, quote)
       IN /\ ~skip => SendCompletes(chan, rx_dropped)
          /\ chan' = r.buf
          /\ sent' = IF ~skip /\ r.ok THEN Append(sent, quote) ELSE sent
          /\ loops' = [loops EXCEPT ![i] =
                [l EXCEPT !.last_branch = IF skip THEN "skipped" ELSE "quote",
                          !.failed = @ \/ ~r.ok,
                          !.late = IF ~skip /\ r.ok /\ l.stop_seen
                                   THEN @ + 1 ELSE @,
                          !.idx = IF r.ok THEN NextIdx(l) ELSE 0]]
    /\ UNCHANGED <<gatewayVars, last, bookVars, lockVars, tick_last, senders,
                   builder, books, orderbook_updates, throughput, applied>>

\* ------------------------------------------------------------ submit_order
\* The f64 values an order carries as quantity and as price.
OrderValues ==
    {F64("finite", 1), F64("finite", 0), F64("finite", -1), F64("nan", 0),
     F64("infinite", 1), F64("infinite", -1)}

\* types::Order as far as submit_order looks at it.
Orders ==
    [symbol : {"BTCUSDT"}, side : {"Buy", "Sell"}, quantity : OrderValues,
     price : OrderValues, order_type : {"Market", "Limit"}]

\* Result<String, HftError> of submit_order.
OrderOk(id) == [ok |-> TRUE, error |-> "none", msg |-> "none", id |-> id]

OrderSubmissionFailed(msg) ==
    [ok |-> FALSE, error |-> "OrderSubmissionFailed", msg |-> msg, id |-> ""]

\* Variant of SubmitOrder: the price is validated whatever the order type.
SubmitOrderPriceAlways(order) ==
    IF LeZero(order.quantity)
    THEN OrderSubmissionFailed("Invalid quantity")
    ELSE IF LeZero(order.price)
    THEN OrderSubmissionFailed("Invalid price for limit order")
    ELSE OrderOk("mock_order_id")

\* BinanceVenue::submit_order: quantity <= 0.0 is refused first, then
\* price <= 0.0 on a limit order; anything else is accepted.
SubmitOrder(order) ==
    IF LeZero(order.quantity)
    THEN OrderSubmissionFailed("Invalid quantity")
    ELSE IF LeZero(order.price) /\ order.order_type = "Limit"
    THEN OrderSubmissionFailed("Invalid price for limit order")
    ELSE OrderOk("mock_order_id")

\* A call of submit_order on the streaming adapter a; the adapter's state
\* plays no part and is not changed.
submit_order(a, order) ==
    /\ last' = [op |-> "submit_order", adapter |-> a, venue_name |-> name(a),
                order |-> order, result |-> SubmitOrder(order)]
    /\ UNCHANGED <<gatewayVars, bookVars, pipeVars, lockVars, adapterVars>>

\* ------------------------------------------------- concurrent book updates
\* The tasks of test_concurrent_book_updates: for i in 0..N.
Tasks == 0 .. (NumTasks - 1)

\* Task i's quote: bid 50000.0 - 10 i, ask 50010.0 + 10 i, sizes 1.0 (in
\* units of 10^-2 here; each task has its own scaled bid and ask price).
TaskQuote(i) ==
    Quote("BTCUSDT", 50000 - 10 * i, 50010 + 10 * i, 1, 1, "TEST")

\* Variant of WriteLockFree: the lock is granted whoever holds it.
WriteLockFreeAlways(holders) == TRUE

\* RwLock::write().await is granted only while nobody holds the lock.
WriteLockFree(holders) == holders = {}

\* books.write().await: the task gets the guard and, through it, the map.
write_lock(i) ==
    /\ task_pc[i] = "ready"
    /\ WriteLockFree(book_lock)
    /\ book_lock' = book_lock \cup {i}
    /\ task_pc' = [task_pc EXCEPT ![i] = "locked"]
    /\ task_seen' = [task_seen EXCEPT ![i] = books]
    /\ UNCHANGED <<gatewayVars, last, bookVars, adapterVars, chan, senders,
                   builder, books, orderbook_updates, throughput, sent,
                   applied, concVars>>

\* The update under the guard: the book of the symbol is looked up (created
\* if missing) and the quote applied to it, as BookBuilder::process_quote does.
task_update(i) ==
    /\ task_pc[i] = "locked"
    /\ books' = BookBuilderProcessQuote(task_seen[i], TaskQuote(i))
    /\ task_pc' = [task_pc EXCEPT ![i] = "updated"]
    /\ UNCHANGED <<gatewayVars, last, bookVars, adapterVars, chan, senders,
                   builder, orderbook_updates, throughput, sent, applied,
                   book_lock, task_seen, concVars>>

\* The guard goes out of scope at the end of the task: the lock is released.
write_unlock(i) ==
    /\ task_pc[i] = "updated"
    /\ book_lock' = book_lock \ {i}
    /\ task_pc' = [task_pc EXCEPT ![i] = "done"]
    /\ UNCHANGED <<gatewayVars, last, bookVars, adapterVars, pipeVars,
                   task_seen, concVars>>

\* ------------------------------------------------- readers of the book map
\* The strategy's task reading the book map, numbered after the writers.
Reader == NumTasks

\* Task i's quote when a reader looks on: every third quote comes without a
\* bid (0.0), every third without an ask.
SidedQuote(i) ==
    IF i % 3 = 1 THEN [TaskQuote(i) EXCEPT !.bid = 0]
    ELSE IF i % 3 = 2 THEN [TaskQuote(i) EXCEPT !.ask = 0]
    ELSE TaskQuote(i)

\* books.entry(symbol).or_insert_with(|| OrderBook::new(symbol))
EntryOrInsert(bks, symbol) ==
    IF symbol \in DOMAIN bks THEN bks[symbol] ELSE OrderBookNew(symbol)

\* OrderBook::update, first statement: the bid side.
UpdateBids(book, quote) ==
    IF quote.bid > 0
    THEN [book EXCEPT !.bids = BTreeInsert(@, ScalePrice(quote.bid),
                                           quote.bid_size)]
    ELSE book

\* OrderBook::update, second statement: the ask side.
UpdateAsks(book, quote) ==
    IF quote.ask > 0
    THEN [book EXCEPT !.asks = BTreeInsert(@, ScalePrice(quote.ask),
                                           quote.ask_size)]
    ELSE book

\* BookBuilder::process_quote under the write guard, up to the end of the
\* first statement of OrderBook::update: the book is looked up or created and
\* the bid inserted.
update_bids(i) ==
    /\ task_pc[i] = "locked"
    /\ books' = Insert(task_seen[i], SidedQuote(i).symbol,
                       UpdateBids(EntryOrInsert(task_seen[i],
                                                SidedQuote(i).symbol),
                                  SidedQuote(i)))
    /\ task_seen' = [task_seen EXCEPT ![i] = books']
    /\ task_pc' = [task_pc EXCEPT ![i] = "bid_done"]
    /\ UNCHANGED <<gatewayVars, last, bookVars, adapterVars, chan, senders,
                   builder, orderbook_updates, throughput, sent, applied,
                   book_lock, concVars>>

\* The second statement of OrderBook::update: the ask is inserted.
update_asks(i) ==
    /\ task_pc[i] = "bid_done"
    /\ books' = Insert(task_seen[i], SidedQuote(i).symbol,
                       UpdateAsks(task_seen[i][SidedQuote(i).symbol],
                                  SidedQuote(i)))
    /\ task_seen' = [task_seen EXCEPT ![i] = books']
    /\ task_pc' = [task_pc EXCEPT ![i] = "updated"]
    /\ UNCHANGED <<gatewayVars, last, bookVars, adapterVars, chan, senders,
                   builder, orderbook_updates, throughput, sent, applied,
                   book_lock, concVars>>

\* Variant of ReadLockFree: a read guard is granted whoever holds the lock.
ReadLockFreeAlways(holders) == TRUE

\* RwLock::read().await is granted only while no write guard is out.
ReadLockFree(holders) == holders \cap Tasks = {}

\* books.read().await by the reader.
read_lock ==
    /\ Reader \notin book_lock
    /\ ReadLockFree(book_lock)
    /\ book_lock' = book_lock \cup {Reader}
    /\ UNCHANGED <<gatewayVars, last, bookVars, adapterVars, pipeVars,
                   task_pc, task_seen, concVars>>

\* The reader's guard is dropped.
read_unlock ==
    /\ Reader \in book_lock
    /\ book_lock' = book_lock \ {Reader}
    /\ UNCHANGED <<gatewayVars, last, bookVars, adapterVars, pipeVars,
                   task_pc, task_seen, concVars>>

\* ------------------------------------------------ concurrent gateway calls
\* The tasks that call into one shared QuoteGateway at the same time.
Callers == {"t1", "t2"}

\* The adapters the concurrent callers register: a mock with a quote sender
\* and a streaming adapter whose connect/retry may fail.
ConcAdapters == {"M1", "B1"}

\* The names the concurrent callers remove.
ConcRemoveNames == {name(a) : a \in ConcAdapters} \cup {"NONEXISTENT"}

\* The symbol lists the concurrent callers subscribe to.
ConcSymbolLists == {<<>>, <<"BTCUSDT">>, <<"ETHUSDT">>}

\* QuoteGateway's three RwLocks, by the field each one wraps.
Locks == {"venues", "subscriptions", "is_running"}

\* tokio::sync::RwLock: the guards handed out and the FIFO queue of the
\* tasks waiting for one, each with the access it asked for.
Unlocked == [writer |-> {}, readers |-> {}, waiters |-> <<>>]

\* A caller outside every gateway call.
NoCall ==
    [op |-> "idle", pc |-> "idle", adapter |-> "", venue_name |-> "",
     symbols |-> <<>>, i |-> 0, errors |-> 0]

\* Nothing called yet: the number of calls made, the symbols of the latest
\* successful subscribe_quotes of each adapter, whether unsubscribe_all ran.
NoCalls ==
    [calls |-> 0, subscribed |-> [a \in ConcAdapters |-> <<>>],
     unsubscribed |-> FALSE]

\* lock.read().await / lock.write().await polled: the task joins the queue.
Request(rw, l, t, mode) == [rw EXCEPT ![l].waiters = Append(@, <<t, mode>>)]

\* The queue is served in order: the task at its head gets a write guard when
\* no guard is out, a read guard when no write guard is out.  A reader behind
\* a waiting writer waits as well.
Granted(rw, l, t) ==
    /\ rw[l].waiters # <<>>
    /\ Head(rw[l].waiters)[1] = t
    /\ rw[l].writer = {}
    /\ Head(rw[l].waiters)[2] = "write" => rw[l].readers = {}

\* The task at the head of the queue takes its guard.
Acquire(rw, l, t) ==
    [rw EXCEPT ![l] =
        [writer |-> IF Head(@.waiters)[2] = "write" THEN {t} ELSE {},
         readers |-> IF Head(@.waiters)[2] = "read"
                     THEN @.readers \cup {t} ELSE @.readers,
         waiters |-> Tail(@.waiters)]]

\* A guard is dropped.
Release(rw, l, t) ==
    [rw EXCEPT ![l].writer = @ \ {t}, ![l].readers = @ \ {t}]

\* A guard that lives for one statement: taken and dropped in one step.
Pass(rw, l, t) == Release(Acquire(rw, l, t), l, t)

\* The guards of a call are dropped when it returns.
ReleaseAll(rw, t) ==
    [l \in Locks |-> [rw[l] EXCEPT !.writer = @ \ {t}, !.readers = @ \ {t}]]

\* The locks task t holds a guard of.
HeldBy(rw, t) == {l \in Locks : t \in rw[l].writer \cup rw[l].readers}

\* The locks task t waits for.
AwaitedBy(rw, t) ==
    {l \in Locks : \E k \in 1..Len(rw[l].waiters) : rw[l].waiters[k][1] = t}

\* A caller may start a call when it is in none.
MayCall(t) == caller[t].op = "idle" /\ conc_obs.calls < MaxCalls

\* The position of task t inside call op.
At(t, op, pc) == caller[t].op = op /\ caller[t].pc = pc

\* A successful subscribe_quotes(symbols) on adapter a is noted.
NoteSubscribed(obs, a, symbols, ok) ==
    IF ok THEN [obs EXCEPT !.subscribed[a] = symbols] ELSE obs

\* add_venue, line 37: venues.write().await is polled.
add_venue_call(t, a) ==
    /\ MayCall(t)
    /\ Len(venues) < MaxVenues
    /\ caller' = [caller EXCEPT ![t] =
                     [NoCall EXCEPT !.op = "add_venue", !.pc = "venues",
                                    !.adapter = a, !.venue_name = name(a)]]
    /\ rwlock' = Request(rwlock, "venues", t, "write")
    /\ conc_obs' = [conc_obs EXCEPT !.calls = @ + 1]
    /\ UNCHANGED <<gatewayVars, last, bookVars, pipeVars, adapterVars,
                   book_lock, task_pc, task_seen>>

\* add_venue, lines 37-42: with the registry's write guard the adapter is
\* pushed, then is_running.read().await is polled.
add_venue_registry(t) ==
    /\ At(t, "add_venue", "venues")
    /\ Granted(rwlock, "venues", t)
    /\ venues' = PushVenue(venues, caller[t].adapter)
    /\ rwlock' = Request(Acquire(rwlock, "venues", t), "is_running", t, "read")
    /\ caller' = [caller EXCEPT ![t].pc = "is_running"]
    /\ UNCHANGED <<subscriptions, is_running, mock_is_running,
                   subscribed_symbols, conc_obs, last, bookVars, pipeVars,
                   adapterVars, book_lock, task_pc, task_seen>>

\* add_venue, lines 42-43: the flag is read through a guard that is dropped
\* at the end of the condition; when it is set, subscriptions.read().await is
\* polled, otherwise the call returns.
add_venue_flag(t) ==
    /\ At(t, "add_venue", "is_running")
    /\ Granted(rwlock, "is_running", t)
    /\ IF is_running
       THEN /\ rwlock' = Request(Pass(rwlock, "is_running", t),
                                 "subscriptions", t, "read")
            /\ caller' = [caller EXCEPT ![t].pc = "subscriptions"]
       ELSE /\ rwlock' = ReleaseAll(Pass(rwlock, "is_running", t), t)
            /\ caller' = [caller EXCEPT ![t] = NoCall]
    /\ UNCHANGED <<gatewayVars, conc_obs, last, bookVars, pipeVars,
                   adapterVars, book_lock, task_pc, task_seen>>

\* add_venue, lines 43-46: with the table's read guard the entry of the
\* adapter's name is looked up; if there is one, subscribe_quotes is called on
\* the adapter with both guards still held.
add_venue_table(t) ==
    /\ At(t, "add_venue", "subscriptions")
    /\ Granted(rwlock, "subscriptions", t)
    /\ LET todo == CatchUp(TRUE, subscriptions, caller[t].venue_name)
       IN IF todo = <<>>
          THEN /\ rwlock' = ReleaseAll(Pass(rwlock, "subscriptions", t), t)
               /\ caller' = [caller EXCEPT ![t] = NoCall]
          ELSE /\ rwlock' = Acquire(rwlock, "subscriptions", t)
               /\ caller' = [caller EXCEPT ![t].pc = "subscribe_quotes",
                                           ![t].symbols = todo[1]]
    /\ UNCHANGED <<gatewayVars, conc_obs, last, bookVars, pipeVars,
                   adapterVars, book_lock, task_pc, task_seen>>

\* add_venue, lines 46-57: the adapter's subscribe_quotes returns, an error is
\* logged only, and the call returns, dropping its guards.
add_venue_returns(t) ==
    /\ At(t, "add_venue", "subscribe_quotes")
    /\ \E connected \in ConnectOutcomes(caller[t].adapter) :
          LET r == subscribe_quotes(caller[t].adapter, caller[t].symbols,
                                    connected, mock_is_running,
                                    subscribed_symbols)
          IN /\ mock_is_running' = r.mr
             /\ subscribed_symbols' = r.ms
             /\ conc_obs' = NoteSubscribed(conc_obs, caller[t].adapter,
                                           caller[t].symbols, r.ok)
    /\ rwlock' = ReleaseAll(rwlock, t)
    /\ caller' = [caller EXCEPT ![t] = NoCall]
    /\ UNCHANGED <<venues, subscriptions, is_running, last, bookVars,
                   pipeVars, adapterVars, book_lock, task_pc, task_seen>>

\* remove_venue, line 62: venues.write().await is polled.
remove_venue_call(t, venue_name) ==
    /\ MayCall(t)
    /\ caller' = [caller EXCEPT ![t] =
                     [NoCall EXCEPT !.op = "remove_venue", !.pc = "venues",
                                    !.venue_name = venue_name]]
    /\ rwlock' = Request(rwlock, "venues", t, "write")
    /\ conc_obs' = [conc_obs EXCEPT !.calls = @ + 1]
    /\ UNCHANGED <<gatewayVars, last, bookVars, pipeVars, adapterVars,
                   book_lock, task_pc, task_seen>>

\* remove_venue, lines 62-92: with the registry's write guard the adapters of
\* the name are taken out; when none was found the call returns its error,
\* otherwise stop() is called on the last one with the guard still held.
remove_venue_registry(t) ==
    /\ At(t, "remove_venue", "venues")
    /\ Granted(rwlock, "venues", t)
    /\ LET r == RemoveVenue(venues, caller[t].venue_name)
       IN /\ venues' = r.venues
          /\ IF r.stopped = <<>>
             THEN /\ rwlock' = Pass(rwlock, "venues", t)
                  /\ caller' = [caller EXCEPT ![t] = NoCall]
             ELSE /\ rwlock' = Acquire(rwlock, "venues", t)
                  /\ caller' = [caller EXCEPT ![t].pc = "stop",
                                              ![t].adapter = r.stopped[1]]
    /\ UNCHANGED <<subscriptions, is_running, mock_is_running,
                   subscribed_symbols, conc_obs, last, bookVars, pipeVars,
                   adapterVars, book_lock, task_pc, task_seen>>

\* remove_venue, lines 92-96: the adapter's stop returns and so does the call.
remove_venue_returns(t) ==
    /\ At(t, "remove_venue", "stop")
    /\ mock_is_running' = stop(caller[t].adapter, mock_is_running)
    /\ rwlock' = ReleaseAll(rwlock, t)
    /\ caller' = [caller EXCEPT ![t] = NoCall]
    /\ UNCHANGED <<venues, subscriptions, is_running, subscribed_symbols,
                   conc_obs, last, bookVars, pipeVars, adapterVars,
                   book_lock, task_pc, task_seen>>

\* subscribe, lines 100-106: an empty list is refused at once, otherwise
\* venues.read().await is polled.
subscribe_call(t, symbols) ==
    /\ MayCall(t)
    /\ IF symbols = <<>>
       THEN UNCHANGED <<caller, rwlock>>
       ELSE /\ caller' = [caller EXCEPT ![t] =
                             [NoCall EXCEPT !.op = "subscribe",
                                            !.pc = "venues",
                                            !.symbols = symbols]]
            /\ rwlock' = Request(rwlock, "venues", t, "read")
    /\ conc_obs' = [conc_obs EXCEPT !.calls = @ + 1]
    /\ UNCHANGED <<gatewayVars, last, bookVars, pipeVars, adapterVars,
                   book_lock, task_pc, task_seen>>

\* subscribe, lines 106-119: with the registry's read guard an empty registry
\* is refused; otherwise the fan-out starts and subscribe_quotes is called on
\* the first adapter, the read guard being held until the call returns.
subscribe_registry(t) ==
    /\ At(t, "subscribe", "venues")
    /\ Granted(rwlock, "venues", t)
    /\ IF venues = <<>>
       THEN /\ rwlock' = Pass(rwlock, "venues", t)
            /\ caller' = [caller EXCEPT ![t] = NoCall]
       ELSE /\ rwlock' = Acquire(rwlock, "venues", t)
            /\ caller' = [caller EXCEPT ![t].pc = "subscribe_quotes",
                                        ![t].i = 1]
    /\ UNCHANGED <<gatewayVars, conc_obs, last, bookVars, pipeVars,
                   adapterVars, book_lock, task_pc, task_seen>>

\* subscribe, lines 115-143, after the adapter at c.i is done with: the
\* fan-out goes on to the next adapter; after the last one the call returns
\* SubscriptionFailed if every adapter failed, and otherwise polls
\* is_running.write().await.
SubscribeAdvance(t, c, rw) ==
    IF c.i < Len(venues)
    THEN /\ caller' = [caller EXCEPT ![t] =
                          [c EXCEPT !.pc = "subscribe_quotes", !.i = @ + 1]]
         /\ rwlock' = rw
    ELSE IF c.errors = Len(venues)
    THEN /\ caller' = [caller EXCEPT ![t] = NoCall]
         /\ rwlock' = ReleaseAll(rw, t)
    ELSE /\ caller' = [caller EXCEPT ![t] = [c EXCEPT !.pc = "is_running"]]
         /\ rwlock' = Request(rw, "is_running", t, "write")

\* subscribe, line 119: inside the adapter, subscribe_quotes does its work
\* (the mock stores the symbols and starts generating, the streaming adapter
\* connects and spawns its receive task) or fails.  The callers run on a
\* multi-threaded runtime: the call has not returned to its task yet.
subscribe_quotes_done(t) ==
    /\ At(t, "subscribe", "subscribe_quotes")
    /\ \E connected \in ConnectOutcomes(venues[caller[t].i]) :
          LET a == venues[caller[t].i]
              r == subscribe_quotes(a, caller[t].symbols, connected,
                                    mock_is_running, subscribed_symbols)
          IN /\ mock_is_running' = r.mr
             /\ subscribed_symbols' = r.ms
             /\ conc_obs' = NoteSubscribed(conc_obs, a, caller[t].symbols, r.ok)
             /\ caller' = [caller EXCEPT ![t].pc =
                               IF r.ok THEN "subscribed" ELSE "failed"]
    /\ UNCHANGED <<venues, subscriptions, is_running, rwlock, last, bookVars,
                   pipeVars, adapterVars, book_lock, task_pc, task_seen>>

\* subscribe, lines 119-130: subscribe_quotes returns to the task.  After Ok
\* subscriptions.write().await is polled, after Err the error is kept.
subscribe_returns(t) ==
    /\ caller[t].op = "subscribe"
    /\ caller[t].pc \in {"subscribed", "failed"}
    /\ IF caller[t].pc = "subscribed"
       THEN /\ caller' = [caller EXCEPT ![t].pc = "subscriptions"]
            /\ rwlock' = Request(rwlock, "subscriptions", t, "write")
       ELSE SubscribeAdvance(t, [caller[t] EXCEPT !.errors = @ + 1], rwlock)
    /\ UNCHANGED <<gatewayVars, conc_obs, last, bookVars, pipeVars,
                   adapterVars, book_lock, task_pc, task_seen>>

\* Variant of subscribe_table: the table's write guard is not dropped at the
\* end of the match arm but kept until the call returns.
subscribe_table_guard_kept(t) ==
    /\ At(t, "subscribe", "subscriptions")
    /\ Granted(rwlock, "subscriptions", t)
    /\ subscriptions' = Insert(subscriptions, name(venues[caller[t].i]),
                               caller[t].symbols)
    /\ SubscribeAdvance(t, caller[t], Acquire(rwlock, "subscriptions", t))
    /\ UNCHANGED <<venues, is_running, mock_is_running, subscribed_symbols,
                   conc_obs, last, bookVars, pipeVars, adapterVars,
                   book_lock, task_pc, task_seen>>

\* subscribe, lines 120-125: with the table's write guard the entry of the
\* venue is written; the guard is dropped at the end of the match arm.
subscribe_table(t) ==
    /\ At(t, "subscribe", "subscriptions")
    /\ Granted(rwlock, "subscriptions", t)
    /\ subscriptions' = Insert(subscriptions, name(venues[caller[t].i]),
                               caller[t].symbols)
    /\ SubscribeAdvance(t, caller[t], Pass(rwlock, "subscriptions", t))
    /\ UNCHANGED <<venues, is_running, mock_is_running, subscribed_symbols,
                   conc_obs, last, bookVars, pipeVars, adapterVars,
                   book_lock, task_pc, task_seen>>

\* subscribe, lines 143-145: the flag is set through a guard dropped at the
\* end of the statement, and the call returns Ok.
subscribe_flag(t) ==
    /\ At(t, "subscribe", "is_running")
    /\ Granted(rwlock, "is_running", t)
    /\ is_running' = TRUE
    /\ rwlock' = ReleaseAll(Pass(rwlock, "is_running", t), t)
    /\ caller' = [caller EXCEPT ![t] = NoCall]
    /\ UNCHANGED <<venues, subscriptions, mock_is_running,
                   subscribed_symbols, conc_obs, last, bookVars, pipeVars,
                   adapterVars, book_lock, task_pc, task_seen>>

\* unsubscribe_all, line 168: is_running.write().await is polled.
unsubscribe_all_call(t) ==
    /\ MayCall(t)
    /\ caller' = [caller EXCEPT ![t] =
                     [NoCall EXCEPT !.op = "unsubscribe_all",
                                    !.pc = "is_running"]]
    /\ rwlock' = Request(rwlock, "is_running", t, "write")
    /\ conc_obs' = [conc_obs EXCEPT !.calls = @ + 1, !.unsubscribed = TRUE]
    /\ UNCHANGED <<gatewayVars, last, bookVars, pipeVars, adapterVars,
                   book_lock, task_pc, task_seen>>

\* unsubscribe_all, lines 168-171: the flag is cleared through a guard dropped
\* at the end of the statement, then subscriptions.write().await is polled.
unsubscribe_all_flag(t) ==
    /\ At(t, "unsubscribe_all", "is_running")
    /\ Granted(rwlock, "is_running", t)
    /\ is_running' = FALSE
    /\ rwlock' = Request(Pass(rwlock, "is_running", t),
                         "subscriptions", t, "write")
    /\ caller' = [caller EXCEPT ![t].pc = "subscriptions"]
    /\ UNCHANGED <<venues, subscriptions, mock_is_running,
                   subscribed_symbols, conc_obs, last, bookVars, pipeVars,
                   adapterVars, book_lock, task_pc, task_seen>>

\* unsubscribe_all, lines 171-175: the table is cleared and the call returns.
unsubscribe_all_table(t) ==
    /\ At(t, "unsubscribe_all", "subscriptions")
    /\ Granted(rwlock, "subscriptions", t)
    /\ subscriptions' = EmptyMap
    /\ rwlock' = Pass(rwlock, "subscriptions", t)
    /\ caller' = [caller EXCEPT ![t] = NoCall]
    /\ UNCHANGED <<venues, is_running, mock_is_running, subscribed_symbols,
                   conc_obs, last, bookVars, pipeVars, adapterVars,
                   book_lock, task_pc, task_seen>>

\* is_running(), line 179: is_running.read().await is polled.
is_running_call(t) ==
    /\ MayCall(t)
    /\ caller' = [caller EXCEPT ![t] =
                     [NoCall EXCEPT !.op = "is_running", !.pc = "is_running"]]
    /\ rwlock' = Request(rwlock, "is_running", t, "read")
    /\ conc_obs' = [conc_obs EXCEPT !.calls = @ + 1]
    /\ UNCHANGED <<gatewayVars, last, bookVars, pipeVars, adapterVars,
                   book_lock, task_pc, task_seen>>

\* is_running(), line 179: the flag is read and the call returns.
is_running_read(t) ==
    /\ At(t, "is_running", "is_running")
    /\ Granted(rwlock, "is_running", t)
    /\ rwlock' = Pass(rwlock, "is_running", t)
    /\ caller' = [caller EXCEPT ![t] = NoCall]
    /\ UNCHANGED <<gatewayVars, conc_obs, last, bookVars, pipeVars,
                   adapterVars, book_lock, task_pc, task_seen>>

\* get_subscriptions(), line 184: subscriptions.read().await is polled.
get_subscriptions_call(t) ==
    /\ MayCall(t)
    /\ caller' = [caller EXCEPT ![t] =
                     [NoCall EXCEPT !.op = "get_subscriptions",
                                    !.pc = "subscriptions"]]
    /\ rwlock' = Request(rwlock, "subscriptions", t, "read")
    /\ conc_obs' = [conc_obs EXCEPT !.calls = @ + 1]
    /\ UNCHANGED <<gatewayVars, last, bookVars, pipeVars, adapterVars,
                   book_lock, task_pc, task_seen>>

\* get_subscriptions(), line 184: the table is cloned and the call returns.
get_subscriptions_read(t) ==
    /\ At(t, "get_subscriptions", "subscriptions")
    /\ Granted(rwlock, "subscriptions", t)
    /\ rwlock' = Pass(rwlock, "subscriptions", t)
    /\ caller' = [caller EXCEPT ![t] = NoCall]
    /\ UNCHANGED <<gatewayVars, conc_obs, last, bookVars, pipeVars,
                   adapterVars, book_lock, task_pc, task_seen>>

\* Every step that takes a call of task t further once it has been made.
CallerStep(t) ==
    \/ add_venue_registry(t) \/ add_venue_flag(t) \/ add_venue_table(t)
    \/ add_venue_returns(t)
    \/ remove_venue_registry(t) \/ remove_venue_returns(t)
    \/ subscribe_registry(t) \/ subscribe_quotes_done(t)
    \/ subscribe_returns(t) \/ subscribe_table(t) \/ subscribe_flag(t)
    \/ unsubscribe_all_flag(t) \/ unsubscribe_all_table(t)
    \/ is_running_read(t) \/ get_subscriptions_read(t)

\* ----------------------------------------------------------- specification
\* QuoteGateway::new and MockVenue::new
Init ==
    /\ venues = <<>>
    /\ subscriptions = EmptyMap
    /\ is_running = FALSE
    /\ mock_is_running = [a \in MockAdapters |-> FALSE]
    /\ subscribed_symbols = [a \in MockAdapters |-> <<>>]
    /\ last = [op |-> "new", adapter |-> "", venue_name |-> "",
               symbols |-> <<>>, result |-> Ok,
               pre |-> [venues |-> <<>>, subscriptions |-> EmptyMap,
                        is_running |-> FALSE],
               calls |-> <<>>]
    /\ ob = OrderBookNew("BTCUSDT")
    /\ ob_last = [quote |-> NoQuote, pre |-> OrderBookNew("BTCUSDT")]
    /\ norm_last = [price |-> <<>>, bid |-> <<>>, key |-> <<>>,
                    best_bid |-> <<>>]
    /\ chan = <<>>
    /\ senders = SenderHolders
    /\ builder = "created"
    /\ books = EmptyMap
    /\ orderbook_updates = EmptyMap
    /\ throughput = EmptyMap
    /\ sent = <<>>
    /\ applied = <<>>
    /\ book_lock = {}
    /\ task_pc = [i \in Tasks |-> "ready"]
    /\ task_seen = [i \in Tasks |-> EmptyMap]
    /\ caller = [t \in Callers |-> NoCall]
    /\ rwlock = [l \in Locks |-> Unlocked]
    /\ conc_obs = NoCalls
    /\ tick_last = NoTick
    /\ loops = <<>>

Next ==
    \/ \E a \in Adapters : add_venue(a)
    \/ \E n \in RemoveNames : remove_venue(n)
    \/ \E s \in SymbolLists : subscribe(s)
    \/ unsubscribe_all

Spec == Init /\ [][Next]_vars

\* The OrderBook driven directly.
BookNext == \E quote \in BookQuotes : update(quote)

BookSpec == Init /\ [][BookNext]_vars

\* The OrderBook fed with quotes that all have 0 < bid < ask.
SpreadBookNext == \E quote \in SpreadQuotes : update(quote)

SpreadBookSpec == Init /\ [][SpreadBookNext]_vars

\* The conversion of websocket messages, one message per step.
TickNext == \E msg \in Messages : handle_message(msg)

TickSpec == Init /\ [][TickNext]_vars

\* N tasks updating the book map under its write lock.
LockNext ==
    \/ \E i \in Tasks : write_lock(i)
    \/ \E i \in Tasks : task_update(i)
    \/ \E i \in Tasks : write_unlock(i)

LockSpec == Init /\ [][LockNext]_vars

\* The gateway in front of the channel: one mock venue is registered,
\* subscribed and removed, quotes come from process_quote and from the mock's
\* generation loop, and BookBuilder consumes them or is dropped.
GatewayPipelineNext ==
    \/ venues = <<>> /\ add_venue("M1")
    \/ remove_venue("MOCK1")
    \/ subscribe(<<"BTCUSDT">>)
    \/ unsubscribe_all
    \/ Total(throughput) < MaxQuotes
          /\ process_quote(PipelineQuote("BTCUSDT", "TEST"))
    \/ Len(sent) < MaxQuotes /\ mock_send("M1", "BTCUSDT")
    \/ run
    \/ run_recv
    \/ drop_builder

GatewayPipelineSpec == Init /\ [][GatewayPipelineNext]_vars

\* The channel from its senders to BookBuilder::run: quotes come from
\* process_quote and from the streaming adapter's loop, every holder of a
\* sender can go away, and so can the consumer.
PipelineNext ==
    \/ "gateway" \in senders /\ Total(throughput) < MaxQuotes
          /\ process_quote(PipelineQuote("BTCUSDT", "TEST"))
    \/ Len(sent) < MaxQuotes
          /\ \E symbol \in PipelineSymbols : binance_send("B1", symbol)
    \/ drop_gateway
    \/ \E a \in QuoteSources : drop_adapter(a)
    \/ drop_builder
    \/ run
    \/ run_recv
    \/ run_return

PipelineSpec == Init /\ [][PipelineNext]_vars

\* BookBuilder::run is a spawned task that the runtime keeps scheduling: an
\* iteration that can be taken is eventually taken.
FairPipelineSpec ==
    PipelineSpec /\ WF_vars(run_recv) /\ WF_vars(run_return)

\* The adapters on their own: direct subscribe_quotes and stop calls with
\* every sequence of attempt outcomes.
ConnectNext ==
    \/ \E a \in StreamingAdapters, symbols \in AdapterSymbolLists,
          outcomes \in AttemptOutcomes :
            binance_subscribe_quotes(a, symbols, outcomes)
    \/ \E a \in MockAdapters, symbols \in AdapterSymbolLists :
            mock_subscribe_quotes(a, symbols)
    \/ \E a \in MockAdapters : adapter_stop(a)

ConnectSpec == Init /\ [][ConnectNext]_vars

\* Within the adapter tasks every call connects at its first attempt.
AdapterOutcomes == {[n \in 1..MAX_RECONNECT_ATTEMPTS |-> "ok"]}

\* The adapters and their background tasks on the quote channel, with a
\* receiver that may be dropped: one streaming adapter and one mock, each
\* with a quote sender, subscribed to two symbols.
AdapterNext ==
    \/ \E outcomes \in AdapterOutcomes :
            binance_subscribe_quotes("B1", <<"BTCUSDT", "ETHUSDT">>, outcomes)
    \/ mock_subscribe_quotes("M1", <<"BTCUSDT", "ETHUSDT">>)
    \/ \E a \in QuoteSources : adapter_stop(a)
    \/ \E i \in 1..MaxLoops, msg \in StreamMessages : ws_message(i, msg)
    \/ \E i \in 1..MaxLoops : ws_error(i)
    \/ \E i \in 1..MaxLoops : ws_closed(i)
    \/ \E i \in 1..MaxLoops : mock_iterate(i)
    \/ \E i \in 1..MaxLoops, skip \in BOOLEAN : mock_quote(i, skip)
    \/ drop_builder

AdapterSpec == Init /\ [][AdapterNext]_vars

\* The streaming adapter alone with its receive tasks.
StreamNext ==
    \/ \E outcomes \in AdapterOutcomes :
            binance_subscribe_quotes("B1", <<"BTCUSDT", "ETHUSDT">>, outcomes)
    \/ \E i \in 1..MaxLoops, msg \in StreamMessages : ws_message(i, msg)
    \/ \E i \in 1..MaxLoops : ws_error(i)
    \/ \E i \in 1..MaxLoops : ws_closed(i)
    \/ drop_builder

StreamSpec == Init /\ [][StreamNext]_vars

\* The spawned tasks are scheduled: a generation task that can take a step
\* takes it.  What the venue or a caller does next is not promised.
FairAdapterSpec ==
    AdapterSpec /\ WF_vars(\E i \in 1..MaxLoops :
                              mock_iterate(i) \/ mock_quote(i, FALSE))

\* Orders of every kind submitted to the streaming adapters.
OrderNext ==
    \E a \in StreamingAdapters, order \in Orders : submit_order(a, order)

OrderSpec == Init /\ [][OrderNext]_vars

\* The scaling of one price per step, in f64 arithmetic.
ScaleNext == \E price \in ScaledPrices : update_f64(price)

ScaleSpec == Init /\ [][ScaleNext]_vars

\* The gateway shared by concurrent callers, every call split at its lock
\* acquisitions and adapter calls.  A call that has been made is taken
\* further as long as its next step is possible: adapter calls return and the
\* runtime keeps scheduling the task.
ConcNext ==
    \/ \E t \in Callers, a \in ConcAdapters : add_venue_call(t, a)
    \/ \E t \in Callers : add_venue_registry(t)
    \/ \E t \in Callers : add_venue_flag(t)
    \/ \E t \in Callers : add_venue_table(t)
    \/ \E t \in Callers : add_venue_returns(t)
    \/ \E t \in Callers, n \in ConcRemoveNames : remove_venue_call(t, n)
    \/ \E t \in Callers : remove_venue_registry(t)
    \/ \E t \in Callers : remove_venue_returns(t)
    \/ \E t \in Callers, s \in ConcSymbolLists : subscribe_call(t, s)
    \/ \E t \in Callers : subscribe_registry(t)
    \/ \E t \in Callers : subscribe_quotes_done(t)
    \/ \E t \in Callers : subscribe_returns(t)
    \/ \E t \in Callers : subscribe_table(t)
    \/ \E t \in Callers : subscribe_flag(t)
    \/ \E t \in Callers : unsubscribe_all_call(t)
    \/ \E t \in Callers : unsubscribe_all_flag(t)
    \/ \E t \in Callers : unsubscribe_all_table(t)
    \/ \E t \in Callers : is_running_call(t)
    \/ \E t \in Callers : is_running_read(t)
    \/ \E t \in Callers : get_subscriptions_call(t)
    \/ \E t \in Callers : get_subscriptions_read(t)

ConcSpec ==
    Init /\ [][ConcNext]_vars /\ \A t \in Callers : WF_vars(CallerStep(t))

\* Writers of the book map, each applying its quote side by side under the
\* write guard, and one reader.
ReaderNext ==
    \/ \E i \in Tasks : write_lock(i)
    \/ \E i \in Tasks : update_bids(i)
    \/ \E i \in Tasks : update_asks(i)
    \/ \E i \in Tasks : write_unlock(i)
    \/ read_lock
    \/ read_unlock

ReaderSpec == Init /\ [][ReaderNext]_vars

\* ------------------------------------------------------------- observation
\* The last gateway call was subscribe and got past both fail-fast checks.
FannedOut ==
    /\ last.op = "subscribe"
    /\ last.symbols # <<>>
    /\ last.pre.venues # <<>>

\* The fan-out called subscribe_quotes(S) once on each registered venue, in
\* registry order.
OneCallPerVenue ==
    /\ Len(last.calls) = Len(last.pre.venues)
    /\ \A i \in 1..Len(last.calls) :
         /\ last.calls[i].adapter = last.pre.venues[i]
         /\ last.calls[i].method = "subscribe_quotes"
         /\ last.calls[i].arg = last.symbols

AnySucceeded == \E i \in 1..Len(last.calls) : last.calls[i].ok
AnyFailed == \E i \in 1..Len(last.calls) : ~last.calls[i].ok
EveryFailed == \A i \in 1..Len(last.calls) : ~last.calls[i].ok

\* The gateway state is what it was before the last call.
GatewayUnchanged ==
    /\ venues = last.pre.venues
    /\ subscriptions = last.pre.subscriptions
    /\ is_running = last.pre.is_running

\* The subscription-table entry under key n is what it was before the call.
EntryUnchanged(n) ==
    IF n \in DOMAIN last.pre.subscriptions
    THEN n \in DOMAIN subscriptions /\ subscriptions[n] = last.pre.subscriptions[n]
    ELSE n \notin DOMAIN subscriptions

\* ------------------------------------------------------------------ claims
\* C1: subscribe with a non-empty symbol list and at least one registered
\* venue calls subscribe_quotes on every registered venue and returns Ok with
\* the running flag set exactly when at least one of those calls succeeded;
\* the failure of other venues does not fail the call.
C1_PartialFailureSucceeds ==
    FannedOut =>
        /\ OneCallPerVenue
        /\ last.result.ok <=> AnySucceeded
        /\ (last.result = Ok /\ is_running) <=> AnySucceeded

\* C1 witness: a fan-out over at least two venues in which one venue failed,
\* another succeeded, and the gateway went from not running to running.
C1_Witness ==
    /\ FannedOut
    /\ Len(last.pre.venues) >= 2
    /\ AnySucceeded /\ AnyFailed
    /\ ~last.pre.is_running
    /\ last.result = Ok /\ is_running

\* C2: with at least one venue registered, subscribe returns
\* SubscriptionFailed exactly when subscribe_quotes was called and failed on
\* every registered venue, and the message then has one entry per registered
\* venue, in registry order, made of the venue's name and that venue's error.
C2_AggregatedFailure ==
    (last.op = "subscribe" /\ last.pre.venues # <<>>) =>
        /\ last.result.err = "SubscriptionFailed"
              <=> (FannedOut /\ OneCallPerVenue /\ EveryFailed)
        /\ last.result.err = "SubscriptionFailed" =>
              /\ Len(last.result.errors) = Len(last.pre.venues)
              /\ \A i \in 1..Len(last.pre.venues) :
                    /\ last.result.errors[i].venue = name(last.pre.venues[i])
                    /\ last.result.errors[i].error = last.calls[i].error
                    /\ last.result.errors[i].error # "none"

\* C2 witness: subscribe failed on three registered venues, two of which
\* share a name, and reported three entries.
C2_Witness ==
    /\ FannedOut
    /\ last.result.err = "SubscriptionFailed"
    /\ Len(last.pre.venues) = 3
    /\ Len(last.result.errors) = 3
    /\ \E i, j \in 1..3 : i # j /\ last.result.errors[i].venue = last.result.errors[j].venue

\* C3: subscribe with an empty symbol list returns InvalidSymbol whatever the
\* gateway state, the empty registry included, and calls no adapter.
C3_EmptySymbolsInvalid ==
    (last.op = "subscribe" /\ last.symbols = <<>>) =>
        /\ last.result = GatewayErr("InvalidSymbol")
        /\ last.calls = <<>>

\* C3 witness: subscribe(<<>>) on a gateway without venues was answered with
\* InvalidSymbol.
C3_Witness ==
    /\ last.op = "subscribe"
    /\ last.symbols = <<>>
    /\ last.pre.venues = <<>>
    /\ last.result.err = "InvalidSymbol"

\* C4: subscribe with a non-empty symbol list on an empty registry returns
\* NoVenuesConfigured (and calls no adapter), also when the registry is empty
\* because its venues were removed.
C4_NoVenuesConfigured ==
    (last.op = "subscribe" /\ last.symbols # <<>> /\ last.pre.venues = <<>>) =>
        /\ last.result = GatewayErr("NoVenuesConfigured")
        /\ last.calls = <<>>

\* C4 witness: NoVenuesConfigured was returned on a registry emptied by
\* remove_venue: the subscription table still holds the entry of a venue that
\* had been registered and subscribed.
C4_Witness ==
    /\ last.op = "subscribe"
    /\ last.symbols # <<>>
    /\ last.pre.venues = <<>>
    /\ DOMAIN last.pre.subscriptions # {}
    /\ last.result.err = "NoVenuesConfigured"

\* C5: whenever subscribe returns an error, the running flag, the
\* subscription table and the venue registry are what they were before.
C5_FailedSubscribeChangesNothing ==
    (last.op = "subscribe" /\ ~last.result.ok) =>
        /\ last.result.err \in {"InvalidSymbol", "NoVenuesConfigured",
                                "SubscriptionFailed"}
        /\ GatewayUnchanged

\* C5 witness: subscribe failed on every venue of a gateway that was not
\* running.
C5_Witness ==
    /\ FannedOut
    /\ last.result.err = "SubscriptionFailed"
    /\ ~last.pre.is_running
    /\ ~is_running

\* C6: after subscribe(S), every registered venue whose subscribe_quotes
\* succeeded has the entry S under its name in the subscription table, and
\* every registered venue whose subscribe_quotes failed has the entry under
\* its name unchanged (absent stays absent, an older list stays).
C6_FailedVenueEntryUnchanged ==
    FannedOut =>
        \A i \in 1..Len(last.calls) :
            IF last.calls[i].ok
            THEN /\ name(last.calls[i].adapter) \in DOMAIN subscriptions
                 /\ subscriptions[name(last.calls[i].adapter)] = last.symbols
            ELSE EntryUnchanged(name(last.calls[i].adapter))

\* The catch-up condition of add_venue in the state before the call.
ShouldCatchUp ==
    /\ last.pre.is_running
    /\ last.venue_name \in DOMAIN last.pre.subscriptions
    /\ last.pre.subscriptions[last.venue_name] # <<>>

\* C7: add_venue calls subscribe_quotes on the new adapter exactly when the
\* gateway is running and the subscription table has a non-empty entry under
\* the adapter's name, once and with that entry's symbols; otherwise it calls
\* nothing.
C7_CatchUpOnlyForOwnEntry ==
    last.op = "add_venue" =>
        IF ShouldCatchUp
        THEN /\ Len(last.calls) = 1
             /\ last.calls[1].adapter = last.adapter
             /\ last.calls[1].method = "subscribe_quotes"
             /\ last.calls[1].arg = last.pre.subscriptions[last.venue_name]
        ELSE last.calls = <<>>

\* C7 witness: an adapter was added to a running gateway whose table had an
\* entry under its name and another one under a different name, and was
\* subscribed to its own entry.
C7_Witness ==
    /\ last.op = "add_venue"
    /\ ShouldCatchUp
    /\ Len(last.calls) = 1
    /\ \E n \in DOMAIN last.pre.subscriptions :
         /\ n # last.venue_name
         /\ last.pre.subscriptions[n] # last.pre.subscriptions[last.venue_name]

\* C8: add_venue always succeeds: the registry is the old registry with the
\* adapter appended, whether or not the catch-up failed, and the running flag
\* and the subscription table are unchanged.
C8_AddAlwaysRegisters ==
    last.op = "add_venue" =>
        /\ last.result = Ok
        /\ venues = Append(last.pre.venues, last.adapter)
        /\ is_running = last.pre.is_running
        /\ subscriptions = last.pre.subscriptions

\* C8 witness: the catch-up subscribe_quotes of an add failed and the adapter
\* is registered behind the earlier ones.
C8_Witness ==
    /\ last.op = "add_venue"
    /\ Len(last.calls) = 1
    /\ ~last.calls[1].ok
    /\ last.pre.venues # <<>>
    /\ venues[Len(venues)] = last.adapter

\* No adapter of the registry before the call has the name that was removed.
NameWasAbsent ==
    \A i \in 1..Len(last.pre.venues) : name(last.pre.venues[i]) # last.venue_name

\* C9: remove_venue(name) with no registered adapter of that name returns
\* VenueNotFound(name), stops no adapter and leaves the registry as it was.
C9_RemoveUnknownKeepsRegistry ==
    (last.op = "remove_venue" /\ NameWasAbsent) =>
        /\ last.result = VenueNotFound(last.venue_name)
        /\ last.calls = <<>>
        /\ venues = last.pre.venues

\* C9 witness: an unknown name was removed from a registry of three adapters.
C9_Witness ==
    /\ last.op = "remove_venue"
    /\ NameWasAbsent
    /\ Len(last.pre.venues) = 3
    /\ last.result.err = "VenueNotFound"

\* C10: when remove_venue(name) returns Ok, no adapter named name is left,
\* the adapters of other names are left in their order, and stop() was called
\* on every adapter the call took out of the registry.
C10_RemovedAdaptersStopped ==
    (last.op = "remove_venue" /\ last.result.ok) =>
        /\ \A i \in 1..Len(venues) : name(venues[i]) # last.venue_name
        /\ venues = SelectSeq(last.pre.venues,
                              LAMBDA a : name(a) # last.venue_name)
        /\ \A i \in 1..Len(last.pre.venues) :
              name(last.pre.venues[i]) = last.venue_name =>
                  \E k \in 1..Len(last.calls) :
                      /\ last.calls[k].method = "stop"
                      /\ last.calls[k].adapter = last.pre.venues[i]

\* C11: after remove_venue(name) succeeds, get_subscriptions() has no entry
\* for name.
C11_RemovedVenueHasNoSubscription ==
    (last.op = "remove_venue" /\ last.result.ok) =>
        last.venue_name \notin DOMAIN get_subscriptions

\* ------------------------------------------------------ order book claims
HasLevel(levels, price) == \E i \in 1..Len(levels) : levels[i].price = price

\* The side `after` is the side `before` with the size at `price` replaced.
OnlySizeReplaced(before, after, price, size) ==
    /\ Len(after) = Len(before)
    /\ \A i \in 1..Len(before) :
          /\ after[i].price = before[i].price
          /\ after[i].size = IF before[i].price = price THEN size
                             ELSE before[i].size

\* No two entries of a side have the same scaled price.
OneEntryPerPrice(levels) ==
    \A i, j \in 1..Len(levels) : levels[i].price = levels[j].price => i = j

\* C18: an update with size 0 at the price of an existing level removes the
\* level (the side has one level less), and no level of size 0 is stored.
C18_ZeroSizeRemovesLevel ==
    /\ (/\ ob_last.quote.bid > 0
        /\ ob_last.quote.bid_size = 0
        /\ HasLevel(ob_last.pre.bids, ScalePrice(ob_last.quote.bid)))
       => (/\ ~HasLevel(ob.bids, ScalePrice(ob_last.quote.bid))
           /\ Len(ob.bids) = Len(ob_last.pre.bids) - 1)
    /\ (/\ ob_last.quote.ask > 0
        /\ ob_last.quote.ask_size = 0
        /\ HasLevel(ob_last.pre.asks, ScalePrice(ob_last.quote.ask)))
       => (/\ ~HasLevel(ob.asks, ScalePrice(ob_last.quote.ask))
           /\ Len(ob.asks) = Len(ob_last.pre.asks) - 1)
    /\ \A i \in 1..Len(ob.bids) : ob.bids[i].size # 0
    /\ \A i \in 1..Len(ob.asks) : ob.asks[i].size # 0

C12_UnsubscribeAllOnlyClears ==
    [][(last' # last /\ last'.op = "unsubscribe_all") =>
          /\ last'.result = Ok
          /\ is_running' = FALSE
          /\ subscriptions' = EmptyMap
          /\ venues' = venues
          /\ last'.calls = <<>>
          /\ UNCHANGED <<mock_is_running, subscribed_symbols, pipeVars>>]_vars

\* C12 witness: unsubscribe_all was called on a running gateway whose mock
\* venue is registered and generating; the loop still runs, the channel still
\* has its senders and its receiver.
C12_Witness ==
    /\ last.op = "unsubscribe_all"
    /\ last.pre.is_running
    /\ last.pre.subscriptions # EmptyMap
    /\ venues = <<"M1">>
    /\ mock_is_running["M1"]
    /\ {"gateway", "M1"} \subseteq senders
    /\ builder = "running"

\* C13: process_quote(q) returns Ok exactly when q was queued (once, as it
\* is), returns ChannelSendFailed exactly when the receiver had been dropped,
\* in which case nothing is queued; it returns nothing else and touches
\* neither the gateway state nor the consumer.
C13_ProcessQuoteOutcome ==
    [][throughput' # throughput =>
          /\ last'.op = "process_quote"
          /\ last'.result \in {Ok, GatewayErr("ChannelSendFailed")}
          /\ last'.result = Ok <=>
                (chan' = Append(chan, last'.quote)
                 /\ sent' = Append(sent, last'.quote))
          /\ last'.result = GatewayErr("ChannelSendFailed") <=>
                builder = "dropped"
          /\ last'.result # Ok => (chan' = chan /\ sent' = sent)
          /\ UNCHANGED <<gatewayVars, senders, builder, books, applied>>]_vars

\* C13 witness: process_quote failed with ChannelSendFailed on a running
\* gateway with a registered venue, after an earlier quote had been queued
\* and applied; the failed quote is in no history.
C13_Witness ==
    /\ last.op = "process_quote"
    /\ last.result = GatewayErr("ChannelSendFailed")
    /\ last.pre.is_running
    /\ last.pre.venues # <<>>
    /\ builder = "dropped"
    /\ applied # <<>>
    /\ \A i \in 1..Len(sent) : sent[i] # last.quote

\* C14: run returns only when every sender has been dropped and every quote
\* that was queued has been applied, and once every sender has been dropped
\* a running run does return (unless its task is aborted).
C14_RunReturnsIffClosed ==
    /\ [](builder = "returned" =>
             (senders = {} /\ chan = <<>> /\ applied = sent))
    /\ ((builder = "running" /\ senders = {})
           ~> (builder \in {"returned", "dropped"}))

\* C14 witness: run has returned after applying three quotes.
C14_Witness ==
    /\ builder = "returned"
    /\ senders = {}
    /\ Len(applied) = MaxQuotes

\* The quotes of seq that carry the symbol s.
SymbolQuotes(seq, s) == SelectSeq(seq, LAMBDA q : q.symbol = s)

VenueQuotes(seq, v) == SelectSeq(seq, LAMBDA q : q.venue = v)

IsPrefix(a, b) == Len(a) <= Len(b) /\ SubSeq(b, 1, Len(a)) = a

\* C16: for every venue, the quotes of that venue applied so far are the
\* first quotes that venue queued, in the order it queued them.
C16_PerVenueOrder ==
    \A v \in {"TEST"} \cup VenueNames :
        IsPrefix(VenueQuotes(applied, v), VenueQuotes(sent, v))

\* C16 witness: two quotes of one venue were applied with a quote of another
\* venue between them.
C16_Witness ==
    /\ Len(applied) = 3
    /\ applied[1].venue = applied[3].venue
    /\ applied[1].venue # applied[2].venue
    /\ applied[1] # applied[3]

\* The symbols of the quotes BookBuilder has processed.
AppliedSymbols == {applied[i].symbol : i \in 1..Len(applied)}

\* C17: the book map holds a book for exactly the symbols of the processed
\* quotes; processing a quote for s adds s's book if it is not there and
\* leaves every other book as it is; nothing else changes the map and no
\* book is removed.
C17_BookPerProcessedSymbol ==
    /\ [](DOMAIN books = AppliedSymbols)
    /\ [][/\ DOMAIN books \subseteq DOMAIN books'
          /\ applied' = applied => books' = books
          /\ applied' # applied =>
                /\ DOMAIN books' =
                      DOMAIN books \cup {applied'[Len(applied')].symbol}
                /\ \A s \in DOMAIN books \ {applied'[Len(applied')].symbol} :
                      books'[s] = books[s]]_vars

\* C17 witness: three quotes over two symbols were processed; the map holds
\* the two books.
C17_Witness ==
    /\ Len(applied) = 3
    /\ AppliedSymbols = PipelineSymbols
    /\ DOMAIN books = PipelineSymbols
    /\ applied[3].symbol = applied[1].symbol

\* ------------------------------------------------------ concurrency claims
AllTasksDone == \A i \in Tasks : task_pc[i] = "done"

\* The largest bid price and the smallest ask price among the tasks' quotes.
HighestBid == CHOOSE p \in {TaskQuote(i).bid : i \in Tasks} :
                 \A i \in Tasks : TaskQuote(i).bid <= p
LowestAsk == CHOOSE p \in {TaskQuote(i).ask : i \in Tasks} :
                \A i \in Tasks : TaskQuote(i).ask >= p

\* C21: when the N tasks have all finished, in whatever order they got the
\* write lock, the book holds N bid levels and N ask levels, its best bid is
\* the highest bid and its best ask the lowest ask of the N quotes.
C21_NoLostUpdate ==
    AllTasksDone =>
        /\ DOMAIN books = {"BTCUSDT"}
        /\ Len(books["BTCUSDT"].bids) = NumTasks
        /\ Len(books["BTCUSDT"].asks) = NumTasks
        /\ \A i \in Tasks :
              /\ HasLevel(books["BTCUSDT"].bids, ScalePrice(TaskQuote(i).bid))
              /\ HasLevel(books["BTCUSDT"].asks, ScalePrice(TaskQuote(i).ask))
        /\ best_bid(books["BTCUSDT"])[1] = HighestBid
        /\ best_ask(books["BTCUSDT"])[1] = LowestAsk

\* C21 witness: every task has finished and the lock is free.
C21_Witness ==
    /\ AllTasksDone
    /\ book_lock = {}
    /\ Len(books["BTCUSDT"].bids) = NumTasks

\* C22: when every quote applied to a book had bid < ask, the book's best bid
\* price is strictly below its best ask price.
C22_BestBidBelowBestAsk ==
    (best_bid(ob) # None /\ best_ask(ob) # None) =>
        best_bid(ob)[1] < best_ask(ob)[1]

\* ------------------------------------------------ streaming adapter claims
\* A field string that is a number strictly above zero.
StrictlyPositive(str) ==
    /\ parse_f64(str).ok
    /\ parse_f64(str).value.kind # "nan"
    /\ parse_f64(str).value.sign > 0

\* C23: a message becomes a quote exactly when it is a bookTicker whose four
\* numeric fields all parse to numbers strictly above zero, and the quote
\* carries the parsed values; every other message produces no quote.
C23_OnlyPositiveTicksForwarded ==
    LET msg == tick_last.msg IN
    /\ tick_last.quote # None =>
          /\ msg.envelope = "bookTicker"
          /\ StrictlyPositive(msg.best_bid_price)
          /\ StrictlyPositive(msg.best_ask_price)
          /\ StrictlyPositive(msg.best_bid_quantity)
          /\ StrictlyPositive(msg.best_ask_quantity)
          /\ tick_last.quote[1].bid = parse_f64(msg.best_bid_price).value
          /\ tick_last.quote[1].ask = parse_f64(msg.best_ask_price).value
          /\ tick_last.quote[1].bid_size = parse_f64(msg.best_bid_quantity).value
          /\ tick_last.quote[1].ask_size = parse_f64(msg.best_ask_quantity).value
    /\ (/\ msg.envelope = "bookTicker"
        /\ StrictlyPositive(msg.best_bid_price)
        /\ StrictlyPositive(msg.best_ask_price)
        /\ StrictlyPositive(msg.best_bid_quantity)
        /\ StrictlyPositive(msg.best_ask_quantity))
       => tick_last.quote # None

\* ---------------------------------------------------- adapter task claims
\* The messages the receive tasks dropped as unusable (envelope that does not
\* parse, field that does not validate).
BadBranches == {"parse_error", "invalid"}

\* C24: a message that fails envelope parsing or field validation never ends
\* the receive loop and never shows to the caller of subscribe: in every step
\* in which a receive task handles a message the recorded call result stays
\* as it was; a dropped message leaves the task running and the channel
\* untouched; and a valid message handled by a task that has dropped
\* messages before is queued behind the buffered quotes as a Quote of the
\* venue, as long as the receiver lives.
C24_BadMessageNeverEndsLoop ==
    [][\A i \in 1..Len(loops) :
        (loops'[i].steps = loops[i].steps + 1
            /\ loops[i].adapter \in StreamingAdapters) =>
            /\ last' = last
            /\ loops'[i].last_branch \in BadBranches =>
                    /\ loops'[i].state = "running"
                    /\ chan' = chan
            /\ (loops[i].dropped >= 1 /\ loops'[i].last_branch = "quote"
                    /\ builder # "dropped") =>
                    /\ Len(sent') = Len(sent) + 1
                    /\ sent'[Len(sent')].venue = "BINANCE_FUTURES"
                    /\ sent'[Len(sent')].symbol = "BTCUSDT"
                    /\ chan' = Append(chan, sent'[Len(sent')])]_vars

\* A receive task that dropped both kinds of bad message and then forwarded
\* a valid one, which is the newest quote in the channel.
C24_Witness ==
    \E i \in 1..Len(loops) :
        /\ loops[i].adapter = "B1"
        /\ loops[i].state = "running"
        /\ loops[i].dropped >= 2
        /\ loops[i].last_branch = "quote"
        /\ chan # <<>>
        /\ chan[Len(chan)].venue = "BINANCE_FUTURES"

\* A subscribe_quotes call on the adapter of task i, made after task i had
\* ended, that went as far as a connection attempt.
ConnectsAgainAfter(i) ==
    /\ i <= Len(loops)
    /\ last.op = "subscribe_quotes"
    /\ last.adapter = loops[i].adapter
    /\ i \in last.ended
    /\ last.result.attempts >= 1

\* C25: when the connection of a streaming adapter is lost (its receive task
\* has ended on a closed or failed stream), a new connection attempt on that
\* adapter is eventually made.
C25_ReconnectsAfterTransportFailure ==
    \A i \in 1..MaxLoops :
        []((i <= Len(loops) /\ loops[i].adapter \in StreamingAdapters
                /\ loops[i].state = "ended")
            => <>ConnectsAgainAfter(i))

\* The recorded call is a subscribe_quotes on a streaming adapter with a
\* non-empty symbol list (the empty list is refused before any connection).
IsConnectCall ==
    /\ last.op = "subscribe_quotes"
    /\ last.adapter \in StreamingAdapters
    /\ last.symbols # <<>>

\* The attempts of the recorded call that connect_async would let succeed.
ConnectingAttempts ==
    {n \in 1..MAX_RECONNECT_ATTEMPTS : last.outcomes[n] = "ok"}

\* What the recorded call owes its caller: no more attempts than the bound;
\* Ok at the first attempt that connects; ConnectionFailed exactly when every
\* attempt failed, with the attempt count at the bound and the error of the
\* last attempt; no failure before the last attempt has failed; and the
\* reconnect delay slept once after each failed attempt but the last.
RetryContract ==
    LET r == last.result
        failed == IF r.ok THEN r.attempts - 1 ELSE r.attempts IN
    /\ r.attempts <= MAX_RECONNECT_ATTEMPTS
    /\ \A n \in ConnectingAttempts :
            (\A k \in 1..(n - 1) : k \notin ConnectingAttempts) =>
                r.ok /\ r.attempts = n
    /\ (r.error = "ConnectionFailed") <=> (ConnectingAttempts = {})
    /\ r.error = "ConnectionFailed" =>
            /\ r.attempts = MAX_RECONNECT_ATTEMPTS
            /\ r.cause = last.outcomes[MAX_RECONNECT_ATTEMPTS]
    /\ ~r.ok => failed = MAX_RECONNECT_ATTEMPTS
    /\ r.slept_ms = RECONNECT_DELAY_MS *
            (IF failed = MAX_RECONNECT_ATTEMPTS THEN failed - 1 ELSE failed)

C27_EmptyListRefused ==
    [][(last' # last /\ last'.op = "subscribe_quotes" /\ last'.symbols = <<>>) =>
            /\ ~last'.result.ok
            /\ last'.result.error = "SubscriptionFailed"
            /\ last'.result.attempts = 0
            /\ loops' = loops
            /\ subscribed_symbols' = subscribed_symbols
            /\ mock_is_running' = mock_is_running
            /\ chan' = chan]_vars

\* The empty list was refused by a mock that is generating quotes for two
\* symbols, while a receive task of the streaming adapter exists.
C27_Witness ==
    /\ last.op = "subscribe_quotes"
    /\ last.symbols = <<>>
    /\ last.adapter = "M1"
    /\ last.result.error = "SubscriptionFailed"
    /\ mock_is_running["M1"]
    /\ subscribed_symbols["M1"] = <<"BTCUSDT", "ETHUSDT">>
    /\ \E i \in 1..Len(loops) : loops[i].adapter = "B1"

\* The receive tasks of adapter a that are still reading their connection.
LiveLoops(a) ==
    {i \in 1..Len(loops) : loops[i].adapter = a /\ loops[i].state = "running"}

\* C28: a streaming adapter has at most one live connection with its receive
\* loop at any time, so that a venue tick is forwarded at most once.
C28_OneLiveConnection ==
    \A a \in StreamingAdapters : Cardinality(LiveLoops(a)) <= 1

\* The quotes one iteration of task i can forward: one message for a receive
\* task, one quote per symbol of the iteration for a generation task.
IterationQuotes(i) ==
    IF loops[i].adapter \in StreamingAdapters THEN 1 ELSE Len(loops[i].symbols)

\* C29: once stop() has returned on an adapter, each of its background tasks
\* forwards no more than the quotes of the iteration that was in progress.
C29_StopEndsForwarding ==
    \A i \in 1..Len(loops) : loops[i].late <= IterationQuotes(i)

\* C30: a forwarding task whose send failed because the receiver is gone
\* does not go on reading and dropping quotes: it has ended.
C30_SendFailureStopsLoop ==
    \A i \in 1..Len(loops) : loops[i].failed => loops[i].state = "ended"

\* ------------------------------------------------------- metrics claims
\* The value of a counter for one combination of label values (0 before the
\* first inc).
CounterAt(counter, labels) ==
    IF labels \in DOMAIN counter THEN counter[labels] ELSE 0

\* The quotes of seq that carry the symbol s and the venue v.
SymbolVenueQuotes(seq, s, v) ==
    SelectSeq(seq, LAMBDA q : q.symbol = s /\ q.venue = v)

\* C31: the update counter of a symbol is the number of quotes applied for
\* it, and the throughput counter of a (symbol, venue) pair is the number of
\* quotes of that pair the channel accepted, whichever sender queued them:
\* one increment of each counter per quote that goes through, none for a
\* quote that was never queued.
C31_CountersMatchQuotes ==
    \A s \in PipelineSymbols :
        /\ CounterAt(orderbook_updates, s) = Len(SymbolQuotes(applied, s))
        /\ \A v \in {"TEST"} \cup VenueNames :
              CounterAt(throughput, <<s, v>>) =
                  Len(SymbolVenueQuotes(sent, s, v))

\* ------------------------------------------------------------ order claims
\* x <= 0 and x > 0 on the values an order can carry (NaN is neither).
IsLeZero(x) == x.kind \in {"finite", "infinite"} /\ x.sign \in {-1, 0}

IsGtZero(x) == x.kind \in {"finite", "infinite"} /\ x.sign = 1

C33_PriceRoundTrip ==
    norm_last.price # <<>> =>
        /\ norm_last.key = norm_last.price
        /\ norm_last.best_bid = norm_last.bid

\* --------------------------------------------------- gateway lock claims
\* C34: while an adapter's subscribe_quotes call made by a gateway operation
\* is in progress, the calling task holds neither the venue-registry lock nor
\* the subscription-table lock, so other callers can take them.
C34_NoLockAcrossSubscribeQuotes ==
    \A t \in Callers :
        caller[t].pc \in {"subscribe_quotes", "subscribed", "failed"}
            => HeldBy(rwlock, t) \cap {"venues", "subscriptions"} = {}

\* ------------------------------------------------------ backpressure claims
\* C35: the channel never holds more quotes than its capacity; while it is
\* full and the receiver lives no send completes, the only change being
\* BookBuilder taking the oldest quote (or the receiver being dropped), after
\* which a suspended send completes behind the quotes still buffered; the
\* quotes queued are the quotes applied followed by the quotes buffered, so
\* none is dropped, overwritten or reordered.
C35_Backpressure ==
    /\ [](Len(chan) <= ChannelCapacity)
    /\ [](builder # "dropped" => sent = applied \o chan)
    /\ [][(Len(chan) = ChannelCapacity /\ builder # "dropped")
             => /\ sent' = sent
                /\ chan' \in {chan, Tail(chan), <<>>}
                /\ chan' = Tail(chan) => applied' = Append(applied, Head(chan))
                /\ chan' \notin {chan, Tail(chan)} => builder' = "dropped"]_vars
    /\ [][(sent' # sent /\ builder # "dropped")
             => /\ Len(chan) < ChannelCapacity
                /\ chan' = Append(chan, sent'[Len(sent')])]_vars

\* C35 witness: the channel was full, BookBuilder took one quote and a
\* further send completed: the channel is full again and every quote queued
\* is either applied or buffered.
C35_Witness ==
    /\ builder = "running"
    /\ Len(chan) = ChannelCapacity
    /\ Len(applied) >= 1
    /\ Len(sent) = ChannelCapacity + Len(applied)

\* ------------------------------------------------------- deadlock claims
\* The order in which the gateway's locks are taken when one is held while
\* another is awaited.
LockRank == [venues |-> 1, is_running |-> 2, subscriptions |-> 3]

\* Task t is inside a gateway call.
InCall(t) == caller[t].op # "idle"

\* C36: a task that waits for one of the three locks holds only locks that
\* come earlier in one fixed order (registry, running flag, subscription
\* table), so no two tasks wait for each other; and, adapter calls
\* returning, every gateway call that was made returns.
C36_DeadlockFree ==
    /\ [](\A t \in Callers :
            \A held \in HeldBy(rwlock, t), l \in AwaitedBy(rwlock, t) :
                LockRank[held] < LockRank[l])
    /\ \A t \in Callers : InCall(t) ~> ~InCall(t)

\* C36 witness: one task is inside an adapter's subscribe_quotes holding the
\* registry lock while the other waits for that lock.
C36_Witness ==
    \E t, u \in Callers :
        /\ t # u
        /\ caller[t].pc = "subscribe_quotes"
        /\ "venues" \in HeldBy(rwlock, t)
        /\ "venues" \in AwaitedBy(rwlock, u)

\* ------------------------------------------------ gateway consistency claims
\* No gateway call is in progress.
NoCallInProgress == \A t \in Callers : ~InCall(t)

\* C37: whenever no gateway call is in progress, the running flag is set
\* only if the subscription table has an entry.
C37_RunningImpliesSubscribed ==
    (NoCallInProgress /\ is_running) => DOMAIN subscriptions # {}

\* C38: when no gateway call is in progress and unsubscribe_all never ran,
\* the table entry of every venue is the symbol list of the latest successful
\* subscribe_quotes call on that venue's adapter.
C38_TableMatchesAdapters ==
    (NoCallInProgress /\ ~conc_obs.unsubscribed)
        => \A a \in ConcAdapters :
              name(a) \in DOMAIN subscriptions
                  => subscriptions[name(a)] = conc_obs.subscribed[a]

\* --------------------------------------------------------- reader claims
\* The book of the tasks' symbol as a reader finds it in the map.
ReadBook == EntryOrInsert(books, "BTCUSDT")

\* The prices at which some task's quote has a bid, and an ask, to insert.
QuotedBids == {ScalePrice(SidedQuote(i).bid) : i \in {j \in Tasks : SidedQuote(j).bid > 0}}
QuotedAsks == {ScalePrice(SidedQuote(i).ask) : i \in {j \in Tasks : SidedQuote(j).ask > 0}}

\* C39: while the reader holds the read lock, the book holds of every quote
\* with bid > 0 and ask > 0 both levels or neither; and a quote that has been
\* applied has its ask (bid) level in the book whenever its ask (bid) is > 0,
\* while a bid (ask) that is not > 0 put no level on the bid (ask) side.
C39_NoHalfAppliedQuote ==
    /\ Reader \in book_lock =>
          \A i \in Tasks :
              (SidedQuote(i).bid > 0 /\ SidedQuote(i).ask > 0) =>
                  (HasLevel(ReadBook.bids, ScalePrice(SidedQuote(i).bid))
                     <=> HasLevel(ReadBook.asks, ScalePrice(SidedQuote(i).ask)))
    /\ \A i \in Tasks :
          task_pc[i] = "done" =>
              /\ SidedQuote(i).bid > 0 =>
                    HasLevel(ReadBook.bids, ScalePrice(SidedQuote(i).bid))
              /\ SidedQuote(i).ask > 0 =>
                    HasLevel(ReadBook.asks, ScalePrice(SidedQuote(i).ask))
    /\ \A k \in 1..Len(ReadBook.bids) : ReadBook.bids[k].price \in QuotedBids
    /\ \A k \in 1..Len(ReadBook.asks) : ReadBook.asks[k].price \in QuotedAsks

\* C39 witness: the reader holds the lock after a two-sided quote, a quote
\* without bid and a quote without ask have been applied, with further
\* quotes still to come.
C39_Witness ==
    /\ Reader \in book_lock
    /\ \A i \in {0, 1, 2} : task_pc[i] = "done"
    /\ \E i \in Tasks : task_pc[i] = "ready"
    /\ Len(ReadBook.bids) = 2
    /\ Len(ReadBook.asks) = 2

\* ------------------------------------------------- generation task claims
\* C40: a MockVenue has at most one quote-generation task alive at any time,
\* whatever the order of subscribe_quotes and stop calls.
C40_OneGenerationTask ==
    \A a \in MockAdapters : Cardinality(LiveLoops(a)) <= 1

====
